---- MODULE Spec2Model ----
(***************************************************************************)
(* Model of the symbolic execution engine of agueda_analysis               *)
(* (src/src/symbolic_execution), of the outcome scorer                     *)
(* (analysis.py, summarize) and of the concrete interpreter                *)
(* (src/src/interpreter/interpreter.py) on a fixed set of small bytecode   *)
(* methods.                                                                *)
(*                                                                         *)
(* Encoding conventions.  Python's None is written NoName for a name,      *)
(* << >> for an optional integer (<<c>> when set) and "None" for           *)
(* SymbolicState.error.  A symbolic name such as "arg0" is the pair        *)
(* <<"arg", 0>>.  Bytecode offsets are 0-based as in the source; the       *)
(* opcode at offset o of a method is code[o + 1].                          *)
(***************************************************************************)
EXTENDS Integers, Sequences, FiniteSets, TLC

\* ------------------------------------------------------------------------
\* Bounds of the model
\* ------------------------------------------------------------------------

\* the solver looks for models with every variable in -SolverBound..SolverBound
SolverBound == 3

\* guard on the global step counter, never reached by the engine as written
StepCap == 120

\* longest list of findings handed to the scorer on its own
MaxFindings == 3

\* the width of a Java int in the model, in bits (32 in the program)
IntBits == 4

\* ------------------------------------------------------------------------
\* Program constants
\* ------------------------------------------------------------------------

MAX_STEPS_PER_STATE == 100

\* SEConfig defaults
DEFAULT_MAX_STEPS == 1000
DEFAULT_MAX_DEPTH == 300

\* INT_MIN, INT_MAX = -(2**31), 2**31 - 1, at the width of the model
INT_MIN == -(2 ^ (IntBits - 1))
INT_MAX == 2 ^ (IntBits - 1) - 1

\* the concrete interpreter's iteration bound, `for x in range(1000)`
CONCRETE_ITERATIONS == 1000

\* ------------------------------------------------------------------------
\* Symbolic expressions (symexpr.py, constraints.py)
\* ------------------------------------------------------------------------

NoName == << >>

SymInt(name, concrete) == [k |-> "int", name |-> name, concrete |-> concrete]

BinaryOp(op, lhs, rhs) == [k |-> "bin", op |-> op, lhs |-> lhs, rhs |-> rhs]

SymArrayRef(name) == [k |-> "aref", name |-> name]

\* SymBool(expr=("not", cond), concrete=None)
negate(cond) == [k |-> "not", e |-> cond]

Conc(c) == SymInt(NoName, <<c>>)

IsSymInt(e) == e.k = "int"

\* ------------------------------------------------------------------------
\* The solver (solver_z3.py): translation and satisfiability
\* ------------------------------------------------------------------------

\* _to_z3 raises NotImplementedError on an expression it has no case for
RECURSIVE to_z3_raises(_)
to_z3_raises(e) ==
    LET RelOps == {"==", "!=", "<", "<=", ">", ">="}
        ArithOps == {"+", "-", "*", "//", "%"}
    IN  CASE e.k = "int" -> FALSE
          [] e.k = "elem" -> FALSE
          [] e.k = "not" -> to_z3_raises(e.e)
          [] e.k = "bin" -> \/ to_z3_raises(e.lhs)
                            \/ to_z3_raises(e.rhs)
                            \/ e.op \notin (RelOps \cup ArithOps)
          [] OTHER -> TRUE

\* the free integer variables of the translation of e
RECURSIVE z3_vars(_)
z3_vars(e) ==
    CASE e.k = "int" -> IF e.concrete # << >> THEN {} ELSE {e.name}
      [] e.k = "elem" -> {<<"elem", e.uid>>}
      [] e.k = "not" -> z3_vars(e.e)
      [] e.k = "bin" -> z3_vars(e.lhs) \cup z3_vars(e.rhs)
      [] OTHER -> {}

B2I(b) == IF b THEN 1 ELSE 0

\* value of the translated term under the assignment env; a boolean term is
\* 1 or 0
RECURSIVE z3_eval(_, _)
z3_eval(e, env) ==
    LET \* z3's integer division and modulus: the remainder is never negative
        Z3Div(a, b) ==
            IF b = 0 THEN 0
            ELSE IF b > 0 THEN a \div b ELSE -(a \div (-b))
    IN  LET Z3Mod(a, b) == IF b = 0 THEN 0 ELSE a - b * Z3Div(a, b)
        IN  CASE e.k = "int" -> IF e.concrete # << >> THEN e.concrete[1] ELSE env[e.name]
              [] e.k = "elem" -> env[<<"elem", e.uid>>]
              [] e.k = "not" -> 1 - z3_eval(e.e, env)
              [] e.k = "bin" ->
                   LET zl == z3_eval(e.lhs, env)
                       zr == z3_eval(e.rhs, env)
                   IN  CASE e.op = "==" -> B2I(zl = zr)
                         [] e.op = "!=" -> B2I(zl # zr)
                         [] e.op = "<" -> B2I(zl < zr)
                         [] e.op = "<=" -> B2I(zl <= zr)
                         [] e.op = ">" -> B2I(zl > zr)
                         [] e.op = ">=" -> B2I(zl >= zr)
                         [] e.op = "+" -> zl + zr
                         [] e.op = "-" -> zl - zr
                         [] e.op = "*" -> zl * zr
                         [] e.op = "//" -> Z3Div(zl, zr)
                         [] e.op = "%" -> Z3Mod(zl, zr)
                         [] OTHER -> 0
              [] OTHER -> 0

SolverDom == (-SolverBound)..SolverBound

PathVars(path) == UNION {z3_vars(path[i]) : i \in 1..Len(path)}

Satisfies(env, path) == \A i \in 1..Len(path) : z3_eval(path[i], env) = 1

solver_raises(path) == \E i \in 1..Len(path) : to_z3_raises(path[i])

is_sat(path) == \E env \in [PathVars(path) -> SolverDom] : Satisfies(env, path)

\* ------------------------------------------------------------------------
\* Symbolic states (symstate.py, path.py) and findings (findings.py)
\* ------------------------------------------------------------------------

\* SymbolicState(pc=PC(entry_method, 0)) with the dataclass defaults.
\* pcInt records that pc holds a bare int instead of a PC object (Goto
\* assigns its integer target).  locals holds the integer slots and arrays
\* the summaries stored in the same Python dict under string keys.
SymbolicState(offset) ==
    [pc |-> offset, pcInt |-> FALSE, stack |-> << >>, locals |-> << >>,
     arrays |-> << >>, path_constraint |-> << >>, depth |-> 0,
     terminated |-> FALSE, error |-> "None", return_value |-> << >>,
     steps |-> 0]

\* an add that puts the condition in front of the list
PathAddFront(s, cond) ==
    [s EXCEPT !.path_constraint = <<cond>> \o @]

\* PathConstraint.add
PathAdd(s, cond) == [s EXCEPT !.path_constraint = Append(@, cond)]

\* len(state.locals): slots and summaries share one dict
LenLocals(s) == Cardinality(DOMAIN s.locals) + Cardinality(DOMAIN s.arrays)

\* dict assignment d[key] = val
DictPut(d, key, val) ==
    [x \in (DOMAIN d) \cup {key} |-> IF x = key THEN val ELSE d[x]]

\* Finding.from_state; src is a history field naming the branch of run
\* that recorded the finding
FindingFromState(state, src) ==
    [kind |-> state.error, pc |-> state.pc, pcInt |-> state.pcInt,
     path_constraint |-> state.path_constraint,
     return_value |-> state.return_value, src |-> src]

\* ------------------------------------------------------------------------
\* Bytecode methods
\* ------------------------------------------------------------------------

\* The methods analysed: args is the parameter list of the descriptor
\* ("I", "Z" or "[I"), code the opcode list.
Methods ==
    LET Push(t, v) == [op |-> "Push", vtype |-> t, value |-> v]
        Load(i) == [op |-> "Load", index |-> i]
        Store(i) == [op |-> "Store", index |-> i]
        Binary(o) == [op |-> "Binary", operant |-> o]
        Ifz(c, t) == [op |-> "Ifz", condition |-> c, target |-> t]
        If(c, t) == [op |-> "If", condition |-> c, target |-> t]
        Goto(t) == [op |-> "Goto", target |-> t]
        Return(t) == [op |-> "Return", type |-> t]
        Get == [op |-> "Get"]
        New(c) == [op |-> "New", classname |-> c]
        Dup == [op |-> "Dup"]
        InvokeStatic(m, n) == [op |-> "InvokeStatic", method |-> m, nparams |-> n]
        InvokeSpecial(m) == [op |-> "InvokeSpecial", method |-> m]
        NewArray == [op |-> "NewArray"]
        ArrayLength == [op |-> "ArrayLength"]
        ArrayLoad == [op |-> "ArrayLoad"]
        ArrayStore == [op |-> "ArrayStore"]
        Cast == [op |-> "Cast"]
        Throw == [op |-> "Throw"]
        Incr(i, a) == [op |-> "Incr", index |-> i, amount |-> a]
        InvokeVirtual == [op |-> "InvokeVirtual"]
        AssertionErrorClass == "java/lang/AssertionError"
        AssertionErrorInit == "java/lang/AssertionError.<init>:()V"
        Sub2 == "jpamb.cases.Calls.sub2:(II)I"
    IN  [divideByN |->
            [args |-> <<"I">>,
             code |-> <<Push("int", 1), Load(0), Binary("Div"), Return("int")>>],
         alwaysAsserts |->
            [args |-> << >>,
             code |-> <<Get, Ifz("ne", 6), New(AssertionErrorClass), Dup,
                        InvokeSpecial(AssertionErrorInit), Throw,
                        Return("void")>>],
         loopForever |->
            [args |-> << >>,
             code |-> <<Goto(0)>>],
         arrayAt |->
            [args |-> <<"[I", "I">>,
             code |-> <<Load(0), Load(1), ArrayLoad, Return("int")>>],
         add |->
            [args |-> <<"I", "I">>,
             code |-> <<Load(0), Load(1), Binary("Add"), Return("int")>>],
         tricky |->
            [args |-> <<"Z">>,
             code |-> <<Load(0), InvokeStatic(("jpamb.cases.Simple.assertBoolean:(Z)V"), 1),
                        Return("void")>>],
         divThenLoop |->
            [args |-> <<"I">>,
             code |-> <<Push("int", 1), Load(0), Binary("Div"), Store(1),
                        Goto(4)>>],
         half |->
            [args |-> <<"I">>,
             code |-> <<Load(0), Push("int", 2), Binary("Div"), Return("int")>>],
         callThenStore |->
            [args |-> << >>,
             code |-> <<InvokeStatic(("jpamb.cases.Calls.helper:()I"), 0), Store(0), Load(0),
                        Return("int")>>],
         countTo2 |->
            [args |-> << >>,
             code |-> <<Push("int", 0), Store(0), Load(0), Push("int", 2),
                        If("ge", 7), Incr(0, 1), Goto(2), Return("void")>>],
         subThenBranch |->
            [args |-> <<"I", "I">>,
             code |-> <<Load(0), Load(1), Binary("Sub"), Ifz("ne", 8),
                        New(AssertionErrorClass), Dup,
                        InvokeSpecial(AssertionErrorInit), Throw,
                        Return("void")>>],
         assertThenDiv |->
            [args |-> <<"I", "I">>,
             code |-> <<Load(0), Load(1), Binary("Sub"), Ifz("ne", 8),
                        New(AssertionErrorClass), Dup,
                        InvokeSpecial(AssertionErrorInit), Throw,
                        Push("int", 1), Load(0), Load(1), Binary("Sub"),
                        Binary("Div"), Store(2), Return("void")>>],
         subThenDiv |->
            [args |-> <<"I", "I">>,
             code |-> <<Push("int", 1), Load(0), Load(1), Binary("Sub"),
                        Binary("Div"), Return("int")>>],
         addMax |->
            [args |-> <<"I">>,
             code |-> <<Load(0), Push("int", INT_MAX), Binary("Add"),
                        Return("int")>>],
         newArrays |->
            [args |-> <<"I">>,
             code |-> <<Push("int", 3), NewArray, Store(1),
                        Push("int", 1), NewArray, Store(2),
                        Load(1), Load(0), Push("int", 5), ArrayStore,
                        Load(1), Load(0), ArrayLoad, Return("int")>>],
         callSub |->
            [args |-> <<"I", "I">>,
             code |-> <<Push("int", 1), Load(0), Load(1), InvokeStatic(Sub2, 2),
                        Binary("Add"), Return("int")>>],
         remOf |->
            [args |-> <<"I", "I">>,
             code |-> <<Load(0), Load(1), Binary("Rem"), Return("int")>>],
         isPositive |->
            [args |-> <<"I">>,
             code |-> <<Load(0), Ifz("le", 4), Push("int", 1), Goto(5),
                        Push("int", 0), Ifz("eq", 8),
                        Push("int", 1), Return("int"),
                        Push("int", 0), Return("int")>>],
         describe |->
            [args |-> <<"I">>,
             code |-> <<Load(0), InvokeVirtual, Return("void")>>],
         setAt |->
            [args |-> <<"[I", "I">>,
             code |-> <<Load(0), Load(1), Push("int", 5), ArrayStore,
                        Return("void")>>],
         sub2 |->
            [args |-> <<"I", "I">>,
             code |-> <<Load(0), Load(1), Binary("Sub"), Return("int")>>],
         assertBoolean |->
            [args |-> <<"Z">>,
             code |-> <<Get, Ifz("ne", 8), Load(0), Ifz("ne", 8),
                        New(AssertionErrorClass), Dup,
                        InvokeSpecial(AssertionErrorInit), Throw,
                        Return("void")>>],
         helper |->
            [args |-> << >>,
             code |-> <<Push("int", 7), Return("int")>>]]

\* the methods analysed as entry methods
MethodNames ==
    LET \* the methods only reached through InvokeStatic
        Callees == {"assertBoolean", "helper", "sub2"}
    IN  (DOMAIN Methods) \ Callees

\* Bytecode.__getitem__: opcodes[pc.offset]; list indexing raises IndexError
\* past the end
OffsetInRange(m, offset) == offset >= 0 /\ offset < Len(Methods[m].code)

Opcode(m, offset) == Methods[m].code[offset + 1]

\* ------------------------------------------------------------------------
\* JVMFrontend (jvm_frontend.py)
\* ------------------------------------------------------------------------

\* the body of the descriptor loop of initial_state for the parameters
\* args[i..], with local_index the next free slot
RECURSIVE InitArgs(_, _, _, _)
InitArgs(args, i, local_index, state) ==
    IF i > Len(args) THEN state
    ELSE IF args[i] = "[I" THEN
        LET len_sym == SymInt(<<"len", local_index>>, << >>)
            arr_id == <<"arg_arr", local_index>>
            s1 == PathAdd(state, BinaryOp(">=", len_sym, Conc(0)))
            s2 == [s1 EXCEPT
                     !.arrays = DictPut(@, arr_id,
                                        [length |-> len_sym, type |-> "int"]),
                     !.locals = DictPut(@, local_index, SymArrayRef(arr_id))]
        IN  InitArgs(args, i + 1, local_index + 1, s2)
    ELSE IF args[i] \in {"I", "Z"} THEN
        InitArgs(args, i + 1, local_index + 1,
                 [state EXCEPT
                    !.locals = DictPut(@, local_index,
                                       SymInt(<<"arg", local_index>>, << >>))])
    ELSE InitArgs(args, i + 1, local_index, state)

initial_state(m) == InitArgs(Methods[m].args, 1, 0, SymbolicState(0))

\* the result of a step: the list of successors, or raised when the Python
\* code raises (IndexError on an empty stack, AttributeError, ...)
Raised == [raised |-> TRUE, succ |-> << >>]
Succ(states) == [raised |-> FALSE, succ |-> states]

Top(st) == st[Len(st)]
Pop(st) == SubSeq(st, 1, Len(st) - 1)
Pop2(st) == SubSeq(st, 1, Len(st) - 2)

\* new.pc = PC(method, offset)
SetPC(s, offset) == [s EXCEPT !.pc = offset, !.pcInt = FALSE]

\* terminated successor with the given error
Terminate(s, err) == [s EXCEPT !.terminated = TRUE, !.error = err]

\* "_ref" in refname
HasRef(name) ==
    /\ name # NoName
    /\ name[1] \in {"java_lang_AssertionError_ref",
                    "java_lang_NullPointerException_ref",
                    "java_lang_ArithmeticException_ref",
                    "java_lang_ArrayIndexOutOfBoundsException_ref",
                    "java_lang_Object_ref", "arg_ref"}

\* refname.replace("_ref", "_arr"): "arg<i>_ref" names the summary key
\* "arg<i>_arr" of initial_state; for the reference of a New no summary is
\* ever stored under the replaced name, the pair only has to differ from
\* every array id
RefToArr(name) ==
    IF name[1] = "arg_ref" THEN <<"arg_arr", name[2]>>
    ELSE <<"replaced_arr", name[2]>>

\* --- one operator per case of the match in _step_impl; s is the state the
\* --- step is applied to, offset its normalised pc.offset

\* Binary Add / Sub / Mul: pop rhs then lhs, push the BinaryOp node
StepArith(s, offset, sym) ==
    IF Len(s.stack) < 2 THEN Raised
    ELSE LET rhs == s.stack[Len(s.stack)]
             lhs == s.stack[Len(s.stack) - 1]
             new == [s EXCEPT !.stack = Append(Pop2(@), BinaryOp(sym, lhs, rhs))]
         IN  Succ(<<SetPC(new, offset + 1)>>)

StepPush(s, offset, opr) ==
    LET v == CASE opr.vtype = "int" -> Conc(opr.value)
               [] opr.vtype = "boolean" -> Conc(IF opr.value = 0 THEN 0 ELSE 1)
               [] opr.vtype = "char" -> Conc(opr.value)
               [] opr.vtype = "null" -> SymInt(NoName, <<0>>)
               [] OTHER -> Conc(opr.value)
    IN  Succ(<<SetPC([s EXCEPT !.stack = Append(@, v)], offset + 1)>>)

StepReturn(s, offset, opr) ==
    LET pops == opr.type = "int" /\ s.stack # << >>
        new == [s EXCEPT
                  !.return_value = IF pops THEN <<Top(s.stack)>> ELSE << >>,
                  !.stack = IF pops THEN Pop(@) ELSE @]
    IN  Succ(<<Terminate(new, "ok")>>)

StepGet(s, offset) ==
    Succ(<<SetPC([s EXCEPT !.stack = Append(@, Conc(0))], offset + 1)>>)

StepIfz(s, offset, opr) ==
    LET IfzOpMap ==
            [eq |-> "==", ne |-> "!=", lt |-> "<", ge |-> ">=", gt |-> ">",
             le |-> "<=", is |-> "==", isnot |-> "!="]
    IN  IF s.stack = << >> THEN Succ(<<Terminate(s, "*")>>)
        ELSE IF opr.condition \notin DOMAIN IfzOpMap THEN Succ(<<Terminate(s, "*")>>)
        ELSE IF s.pcInt THEN Raised      \* s.pc.method on an int
        ELSE
          LET value == Top(s.stack)
              cond_expr == BinaryOp(IfzOpMap[opr.condition], value, Conc(0))
              true_state == [PathAdd(s, cond_expr) EXCEPT
                               !.depth = s.depth + 1, !.stack = Pop(@),
                               !.pc = opr.target]
              false_state == [PathAdd(s, negate(cond_expr)) EXCEPT
                               !.depth = s.depth + 1, !.stack = Pop(@),
                               !.pc = s.pc + 1]
          IN  Succ(<<true_state, false_state>>)

StepIf(s, offset, opr) ==
    LET IfOpMap ==
            [ne |-> "!=", eq |-> "==", gt |-> ">", ge |-> ">=", lt |-> "<",
             le |-> "<="]
    IN  IF s.pcInt THEN Raised           \* s.pc.method on an int
        ELSE IF Len(s.stack) < 2 THEN Raised
        ELSE IF opr.condition \notin DOMAIN IfOpMap THEN Raised
        ELSE
          LET rhs == s.stack[Len(s.stack)]
              lhs == s.stack[Len(s.stack) - 1]
              cond_expr == BinaryOp(IfOpMap[opr.condition], lhs, rhs)
              true_state == [PathAdd(s, cond_expr) EXCEPT
                               !.depth = s.depth + 1, !.stack = Pop2(@),
                               !.pc = opr.target]
              false_state == [PathAdd(s, negate(cond_expr)) EXCEPT
                               !.depth = s.depth + 1, !.stack = Pop2(@),
                               !.pc = offset + 1]
          IN  Succ(<<true_state, false_state>>)

\* a Div / Rem whose continuing state carries no constraint on the divisor
StepDivRemUnguarded(s, offset, sym) ==
    IF Len(s.stack) < 2 THEN Raised
    ELSE
      LET rhs == s.stack[Len(s.stack)]
          lhs == s.stack[Len(s.stack) - 1]
          cond_expr == BinaryOp("==", rhs, Conc(0))
          err_state == Terminate([PathAdd(s, cond_expr) EXCEPT
                                    !.stack = Pop2(@)], "divide by zero")
          ok_state == SetPC([s EXCEPT
                               !.stack = Append(Pop2(@),
                                                BinaryOp(sym, lhs, rhs))],
                            offset + 1)
      IN  Succ(<<err_state, ok_state>>)

\* Binary Div (sym "//") and Rem (sym "%")
StepDivRem(s, offset, sym) ==
    IF Len(s.stack) < 2 THEN Raised
    ELSE
      LET rhs == s.stack[Len(s.stack)]
          lhs == s.stack[Len(s.stack) - 1]
          cond_expr == BinaryOp("==", rhs, Conc(0))
          err_state == Terminate([PathAdd(s, cond_expr) EXCEPT
                                    !.stack = Pop2(@)], "divide by zero")
          ok_state == SetPC([PathAdd(s, negate(cond_expr)) EXCEPT
                               !.stack = Append(Pop2(@),
                                                BinaryOp(sym, lhs, rhs))],
                            offset + 1)
      IN  Succ(<<err_state, ok_state>>)

StepNew(s, offset, opr) ==
    LET \* c.slashed().replace('/', '_') + "_ref": the name base of a New reference
        RefBase(c) ==
            CASE c = "java/lang/AssertionError" -> "java_lang_AssertionError_ref"
              [] c = "java/lang/NullPointerException" ->
                    "java_lang_NullPointerException_ref"
              [] c = "java/lang/ArithmeticException" ->
                    "java_lang_ArithmeticException_ref"
              [] c = "java/lang/ArrayIndexOutOfBoundsException" ->
                    "java_lang_ArrayIndexOutOfBoundsException_ref"
              [] OTHER -> "java_lang_Object_ref"
    IN  LET ref == SymInt(<<RefBase(opr.classname), LenLocals(s)>>, <<1>>)
        IN  Succ(<<SetPC([s EXCEPT !.stack = Append(@, ref)], offset + 1)>>)

StepDup(s, offset) ==
    IF s.stack = << >> THEN Succ(<<Terminate(s, "None")>>)
    ELSE Succ(<<SetPC([s EXCEPT !.stack = Append(@, Top(@))], offset + 1)>>)

StepInvokeStatic(s, offset, opr) ==
    IF opr.method = ("jpamb.cases.Simple.assertBoolean:(Z)V") THEN
      IF s.stack = << >> THEN Raised
      ELSE
        LET cond_val == Top(s.stack)
            new == [s EXCEPT !.stack = Pop(@)]
            cond_expr == BinaryOp("==", cond_val, Conc(0))
            err_state == Terminate(PathAdd(new, cond_expr), "assertion error")
            ok_state == SetPC(PathAdd(new, negate(cond_expr)), offset + 1)
        IN  Succ(<<err_state, ok_state>>)
    ELSE Succ(<<SetPC(s, offset + 1)>>)

\* an InvokeSpecial that also pops an argument below the receiver
StepInvokeSpecialPop2(s, offset, opr) ==
    Succ(<<SetPC([s EXCEPT !.stack = IF Len(@) < 2 THEN << >> ELSE Pop2(@)],
                 offset + 1)>>)

StepInvokeSpecial(s, offset, opr) ==
    Succ(<<SetPC([s EXCEPT !.stack = IF @ = << >> THEN @ ELSE Pop(@)],
                 offset + 1)>>)

StepNewArray(s, offset) ==
    IF s.stack = << >> THEN Raised
    ELSE
      LET dim == Top(s.stack)
          ge_zero == BinaryOp(">=", dim, Conc(0))
          arr_id == <<"arr", LenLocals(s)>>
          new == [PathAdd(PathAdd(s, ge_zero), ge_zero) EXCEPT
                    !.arrays = DictPut(@, arr_id,
                                       [length |-> dim, type |-> "int"]),
                    !.stack = Append(Pop(@), SymArrayRef(arr_id))]
      IN  Succ(<<SetPC(new, offset + 1)>>)

StepArrayLength(s, offset) ==
    IF s.stack = << >> THEN Raised
    ELSE
      LET arr == Top(s.stack) IN
      IF IsSymInt(arr) /\ arr.concrete = <<0>>
      THEN Succ(<<Terminate(s, "null pointer")>>)
      ELSE IF arr.k # "aref" THEN Succ(<<Terminate(s, "*")>>)
      ELSE IF arr.name \notin DOMAIN s.arrays
      THEN Succ(<<Terminate(s, "null pointer")>>)
      ELSE Succ(<<SetPC([s EXCEPT !.stack = Append(Pop(@),
                                              s.arrays[arr.name].length)],
                        offset + 1)>>)

\* bounds successors whose continuing state is not bounded from above
BoundsSuccessorsNoUpper(s, new_ok, idx, length, offset, error_states) ==
    LET cond_ge_0 == BinaryOp(">=", idx, Conc(0))
        cond_lt_len == BinaryOp("<", idx, length)
        ok == SetPC(PathAdd(new_ok, cond_ge_0), offset + 1)
        err_lo == Terminate(PathAdd(s, negate(cond_ge_0)), "out of bounds")
        err_hi == Terminate(PathAdd(s, negate(cond_lt_len)), "out of bounds")
    IN  Succ(<<ok, err_lo, err_hi>> \o error_states)

\* the three bounds successors of an array access and the extra error states
BoundsSuccessors(s, new_ok, idx, length, offset, error_states) ==
    LET cond_ge_0 == BinaryOp(">=", idx, Conc(0))
        cond_lt_len == BinaryOp("<", idx, length)
        ok == SetPC(PathAdd(PathAdd(new_ok, cond_ge_0), cond_lt_len),
                    offset + 1)
        err_lo == Terminate(PathAdd(s, negate(cond_ge_0)), "out of bounds")
        err_hi == Terminate(PathAdd(s, negate(cond_lt_len)), "out of bounds")
    IN  Succ(<<ok, err_lo, err_hi>> \o error_states)

StepArrayStore(s, offset) ==
    IF Len(s.stack) < 3 THEN Raised
    ELSE
      LET n == Len(s.stack)
          idx == s.stack[n - 1]
          arr_ref == s.stack[n - 2]
          popped == [s EXCEPT !.stack = SubSeq(@, 1, n - 3)]
      IN
      IF arr_ref.k = "aref" THEN
        IF arr_ref.name \notin DOMAIN s.arrays
        THEN Succ(<<Terminate(s, "null pointer")>>)
        ELSE BoundsSuccessors(s, popped, idx, s.arrays[arr_ref.name].length,
                              offset, << >>)
      ELSE IF IsSymInt(arr_ref) THEN
        IF arr_ref.concrete = <<0>>
        THEN Succ(<<Terminate(s, "null pointer")>>)
        ELSE
          LET is_null == BinaryOp("==", arr_ref, Conc(0))
              null_state == Terminate(PathAdd(s, is_null), "null pointer")
              new_ok == PathAdd(popped, negate(is_null))
          IN  IF ~HasRef(arr_ref.name)
              THEN Succ(<<Terminate(s, "*"), null_state>>)
              ELSE IF RefToArr(arr_ref.name) \notin DOMAIN s.arrays
              THEN Succ(<<Terminate(s, "null pointer"), null_state>>)
              ELSE BoundsSuccessors(s, new_ok, idx,
                                    s.arrays[RefToArr(arr_ref.name)].length,
                                    offset, <<null_state>>)
      ELSE Succ(<<Terminate(s, "*")>>)

StepArrayLoad(s, offset) ==
    LET \* uid stands for the identity of the Python object (the solver keys its
        \* fresh variable on id(expr))
        SymArrayElem(array, index, uid) ==
            [k |-> "elem", array |-> array, index |-> index, uid |-> uid]
    IN  IF Len(s.stack) < 2 THEN Raised
        ELSE
          LET n == Len(s.stack)
              idx == s.stack[n]
              arr_ref == s.stack[n - 1]
              popped == [s EXCEPT !.stack = Pop2(@)]
              Load3(arr_name) ==
                IF arr_name \notin DOMAIN s.arrays
                THEN Succ(<<Terminate(s, "null pointer")>>)
                ELSE BoundsSuccessors(
                       s,
                       [popped EXCEPT
                          !.stack = Append(@, SymArrayElem(arr_name, idx, s.steps))],
                       idx, s.arrays[arr_name].length, offset, << >>)
          IN
          IF IsSymInt(arr_ref) /\ arr_ref.concrete = <<0>>
          THEN Succ(<<Terminate(s, "null pointer")>>)
          ELSE IF arr_ref.k = "aref" THEN Load3(arr_ref.name)
          ELSE IF IsSymInt(arr_ref) THEN
            IF HasRef(arr_ref.name) THEN Load3(RefToArr(arr_ref.name))
            ELSE Succ(<<Terminate(s, "*"),
                        Terminate(PathAdd(s, BinaryOp("==", arr_ref, Conc(0))),
                                  "null pointer")>>)
          ELSE Succ(<<Terminate(s, "*")>>)

StepCast(s, offset) == Succ(<<SetPC(s, offset + 1)>>)

\* new.pc = t: the target is stored as a bare int
StepGoto(s, offset, opr) ==
    Succ(<<[s EXCEPT !.pc = opr.target, !.pcInt = TRUE]>>)

StepStore(s, offset, opr) ==
    IF s.stack = << >> THEN Succ(<<Terminate(s, "None")>>)
    ELSE Succ(<<SetPC([s EXCEPT !.locals = DictPut(@, opr.index, Top(s.stack)),
                                !.stack = Pop(@)],
                      offset + 1)>>)

StepLoad(s, offset, opr) ==
    LET val == IF opr.index \in DOMAIN s.locals THEN s.locals[opr.index]
               ELSE Conc(0)
    IN  Succ(<<SetPC([s EXCEPT !.stack = Append(@, val)], offset + 1)>>)

StepThrow(s, offset) ==
    LET \* the label Throw derives from the name of the thrown reference
        ThrowLabel(exc) ==
            IF exc = << >> \/ ~IsSymInt(exc[1]) THEN "*"
            ELSE LET ref_name == exc[1].name
                     base == IF ref_name = NoName THEN "" ELSE ref_name[1]
                 IN  CASE base = "java_lang_AssertionError_ref" -> "assertion error"
                       [] base = "java_lang_NullPointerException_ref" -> "null pointer"
                       [] base = "java_lang_ArrayIndexOutOfBoundsException_ref" ->
                             "out of bounds"
                       [] base = "java_lang_ArithmeticException_ref" ->
                             "divide by zero"
                       [] OTHER -> "*"
    IN  LET exc == IF s.stack = << >> THEN << >> ELSE <<Top(s.stack)>>
            new == [s EXCEPT !.stack = IF @ = << >> THEN @ ELSE Pop(@)]
        IN  Succ(<<Terminate(new, ThrowLabel(exc))>>)

StepIncr(s, offset, opr) ==
    LET \* _add_int
        add_int(val, inc) ==
            IF IsSymInt(val) /\ val.concrete # << >> /\ val.name = NoName
            THEN Conc(val.concrete[1] + inc)
            ELSE IF inc = 0 THEN val
            ELSE BinaryOp("+", val, Conc(inc))
    IN  LET cur_val == IF opr.index \in DOMAIN s.locals THEN s.locals[opr.index]
                       ELSE Conc(0)
        IN  Succ(<<SetPC([s EXCEPT !.locals = DictPut(@, opr.index,
                                                      add_int(cur_val, opr.amount))],
                          offset + 1)>>)

\* case _: unhandled opcode
StepUnhandled(s) == Succ(<<Terminate(s, "*")>>)

\* JVMFrontend._step_impl on method m
step_impl(m, s) ==
    IF ~OffsetInRange(m, s.pc) THEN Raised
    ELSE
      LET offset == s.pc
          opr == Opcode(m, offset)
      IN  CASE opr.op = "Binary" ->
                 CASE opr.operant = "Sub" -> StepArith(s, offset, "-")
                   [] opr.operant = "Add" -> StepArith(s, offset, "+")
                   [] opr.operant = "Mul" -> StepArith(s, offset, "*")
                   [] opr.operant = "Div" -> StepDivRem(s, offset, "//")
                   [] opr.operant = "Rem" -> StepDivRem(s, offset, "%")
                   [] OTHER -> StepUnhandled(s)
            [] opr.op = "Push" -> StepPush(s, offset, opr)
            [] opr.op = "Return" -> StepReturn(s, offset, opr)
            [] opr.op = "Get" -> StepGet(s, offset)
            [] opr.op = "Ifz" -> StepIfz(s, offset, opr)
            [] opr.op = "If" -> StepIf(s, offset, opr)
            [] opr.op = "New" -> StepNew(s, offset, opr)
            [] opr.op = "Dup" -> StepDup(s, offset)
            [] opr.op = "InvokeStatic" -> StepInvokeStatic(s, offset, opr)
            [] opr.op = "InvokeSpecial" -> StepInvokeSpecial(s, offset, opr)
            [] opr.op = "NewArray" -> StepNewArray(s, offset)
            [] opr.op = "ArrayLength" -> StepArrayLength(s, offset)
            [] opr.op = "ArrayStore" -> StepArrayStore(s, offset)
            [] opr.op = "ArrayLoad" -> StepArrayLoad(s, offset)
            [] opr.op = "Cast" -> StepCast(s, offset)
            [] opr.op = "Goto" -> StepGoto(s, offset, opr)
            [] opr.op = "Store" -> StepStore(s, offset, opr)
            [] opr.op = "Load" -> StepLoad(s, offset, opr)
            [] opr.op = "Throw" -> StepThrow(s, offset)
            [] opr.op = "Incr" -> StepIncr(s, offset, opr)
            [] OTHER -> StepUnhandled(s)

\* JVMFrontend.step: s.steps += 1 on the state itself, then _step_impl (the
\* copies it makes inherit the incremented counter)
step(m, s) == step_impl(m, [s EXCEPT !.steps = @ + 1])

\* ------------------------------------------------------------------------
\* The concrete interpreter (interpreter/interpreter.py)
\* ------------------------------------------------------------------------

IntV(n) == [type |-> "int", value |-> n]

\* Python's floor division and its modulus (sign of the divisor)
PyFloorDiv(a, b) == IF b > 0 THEN a \div b ELSE (-a) \div (-b)
\* Frame.from_method
FrameFromMethod(m) ==
    [locals |-> << >>, stack |-> << >>, method |-> m, offset |-> 0]

\* what one call of step does: the next State, a termination label, or an
\* exception
CState(heap, frames) ==
    [kind |-> "state", heap |-> heap, frames |-> frames, label |-> ""]
CLabel(l) == [kind |-> "label", heap |-> << >>, frames |-> << >>, label |-> l]
CRaise == [kind |-> "raise", heap |-> << >>, frames |-> << >>, label |-> ""]

\* the frames with the top frame replaced by f
WithTop(frames, f) == [frames EXCEPT ![Len(frames)] = f]

\* frame.pc += 1
Advance(f) == [f EXCEPT !.offset = @ + 1]

\* a Return that leaves the caller's pc on the invoke
CReturnNoAdvance(heap, frames, vals) ==
    IF Len(frames) = 1 THEN CLabel("ok")
    ELSE LET rest == SubSeq(frames, 1, Len(frames) - 1)
             caller == rest[Len(rest)]
         IN  CState(heap, WithTop(rest, [caller EXCEPT !.stack = @ \o vals]))

\* Return: pop the frame, hand the value (when typed) to the caller
CReturn(heap, frames, vals) ==
    IF Len(frames) = 1 THEN CLabel("ok")
    ELSE LET rest == SubSeq(frames, 1, Len(frames) - 1)
             caller == rest[Len(rest)]
         IN  CState(heap,
                    WithTop(rest, Advance([caller EXCEPT !.stack = @ \o vals])))

\* the jump decision of Ifz and If
CCompare(c, a, b) ==
    CASE c = "ne" -> a # b
      [] c = "eq" -> a = b
      [] c = "gt" -> a > b
      [] c = "ge" -> a >= b
      [] c = "lt" -> a < b
      [] c = "le" -> a <= b

CConditions == {"ne", "eq", "gt", "ge", "lt", "le"}

CBranch(heap, frames, f, jump, target) ==
    CState(heap, WithTop(frames, IF jump THEN [f EXCEPT !.offset = target]
                                 ELSE Advance(f)))

\* ArrayLoad on the popped index and array reference: the value of the
\* reference is None, a tuple (an array argument), or neither a list nor a
\* tuple (an int, a heap index), which is the final else
CArrayLoad(heap, frames, f, index, aref) ==
    IF index.type # "int" THEN CRaise
    ELSE IF aref.type # "ref" THEN CLabel("assertion error")
    ELSE IF aref.kind = "none" THEN CLabel("null pointer")
    ELSE IF aref.kind = "heap" THEN CLabel("assertion error")
    ELSE IF aref.content = << >> THEN CLabel("out of bounds")
    ELSE LET n == Len(aref.content)
             i == index.value
         IN  \* aref.value[index.value]: a negative index counts from the end
             IF i >= n \/ i < -n THEN CRaise
             ELSE LET v == aref.content[(IF i < 0 THEN i + n ELSE i) + 1]
                  IN  CState(heap,
                             WithTop(frames,
                                     Advance([f EXCEPT !.stack = Append(@, IntV(v))])))

\* step(state) of the concrete interpreter on the heap and the frames of
\* the state.  The opcodes of Methods are Push, Load, Store, Binary (Add,
\* Sub, Mul, Div, Rem), Ifz, If, Goto, Return, Get, New, Dup, InvokeStatic,
\* InvokeSpecial, NewArray, ArrayLength, ArrayStore, ArrayLoad, Cast, Throw
\* and Incr; the last case is `case a`.
cstep(heap, frames) ==
    LET \* the entry of Methods an InvokeStatic operand names
        MethodKey(m) ==
            CASE m = ("jpamb.cases.Simple.assertBoolean:(Z)V") -> "assertBoolean"
              [] m = ("jpamb.cases.Calls.helper:()I") -> "helper"
              [] m = "jpamb.cases.Calls.sub2:(II)I" -> "sub2"
        \* a Reference value holding a heap index
        HeapRef(i) == [type |-> "ref", kind |-> "heap", content |-> << >>,
                       value |-> i]
        \* what the heap holds at a key: the list NewArray made, or the
        \* jvm.Value an ArrayStore put there
        HeapList(items) == [islist |-> TRUE, items |-> items, val |-> IntV(0)]
        HeapValue(v) == [islist |-> FALSE, items |-> << >>, val |-> v]
        \* a Reference value holding None
        NullRef == [type |-> "ref", kind |-> "none", content |-> << >>]
        PyMod(a, b) == a - b * PyFloorDiv(a, b)
    IN  LET f == frames[Len(frames)]
            st == f.stack
            n == Len(st)
        IN
        IF ~OffsetInRange(f.method, f.offset) THEN CRaise
        ELSE
        LET opr == Opcode(f.method, f.offset) IN
        CASE opr.op = "Push" ->
               IF opr.vtype = "int"
               THEN CState(heap, WithTop(frames, Advance([f EXCEPT !.stack =
                                                      Append(@, IntV(opr.value))])))
               ELSE IF opr.vtype = "null"
               THEN CState(heap, WithTop(frames, Advance([f EXCEPT !.stack =
                                                      Append(@, NullRef)])))
               ELSE CRaise
          [] opr.op = "Binary" ->
               IF n < 2 THEN CRaise
               ELSE IF st[n].type # "int" \/ st[n - 1].type # "int" THEN CRaise
               ELSE
                 LET v2 == st[n].value
                     v1 == st[n - 1].value
                     push(res) == CState(heap, WithTop(frames,
                                      Advance([f EXCEPT !.stack =
                                                 Append(Pop2(@), IntV(res))])))
                 IN  CASE opr.operant = "Div" ->
                            IF v2 = 0 THEN CLabel("divide by zero")
                            ELSE push(PyFloorDiv(v1, v2))
                       [] opr.operant = "Add" -> push(v1 + v2)
                       [] opr.operant = "Sub" -> push(v1 - v2)
                       [] opr.operant = "Mul" -> push(v1 * v2)
                       [] opr.operant = "Rem" ->
                            IF v2 = 0 THEN CLabel("divide by zero")
                            ELSE push(PyMod(v1, v2))
                       [] OTHER -> CRaise
          [] opr.op = "Return" ->
               IF opr.type \in {"int", "ref"}
               THEN IF n = 0 THEN CRaise ELSE CReturn(heap, frames, <<st[n]>>)
               ELSE IF opr.type = "void" THEN CReturn(heap, frames, << >>)
               ELSE CRaise
          [] opr.op = "Get" ->
               CState(heap, WithTop(frames, Advance([f EXCEPT !.stack =
                                                 Append(@, IntV(0))])))
          [] opr.op = "Ifz" ->
               IF n = 0 THEN CRaise
               ELSE IF st[n].type # "int" THEN CRaise
               ELSE IF opr.condition \notin CConditions THEN CRaise
               ELSE CBranch(heap, frames, [f EXCEPT !.stack = Pop(@)],
                            CCompare(opr.condition, st[n].value, 0), opr.target)
          [] opr.op = "If" ->
               IF n < 2 THEN CRaise
               ELSE IF st[n].type # "int" \/ st[n - 1].type # "int" THEN CRaise
               ELSE IF opr.condition \notin CConditions THEN CRaise
               ELSE CBranch(heap, frames, [f EXCEPT !.stack = Pop2(@)],
                            CCompare(opr.condition, st[n - 1].value, st[n].value),
                            opr.target)
          [] opr.op = "New" -> CLabel("assertion error")
          [] opr.op = "Dup" ->
               IF n = 0 THEN CRaise
               ELSE CState(heap, WithTop(frames, Advance([f EXCEPT !.stack =
                                                      Append(@, st[n])])))
          [] opr.op = "InvokeStatic" ->
               IF n < opr.nparams THEN CRaise
               ELSE
                 LET args == SubSeq(st, n - opr.nparams + 1, n)
                     caller == [f EXCEPT !.stack = SubSeq(@, 1, n - opr.nparams)]
                     new_frame == [FrameFromMethod(MethodKey(opr.method)) EXCEPT
                                     !.locals = [i \in 0..(opr.nparams - 1) |->
                                                   args[i + 1]]]
                 IN  CState(heap, Append(WithTop(frames, caller), new_frame))
          [] opr.op = "Store" ->
               IF n = 0 THEN CRaise
               ELSE CState(heap, WithTop(frames,
                       Advance([f EXCEPT !.locals = DictPut(@, opr.index, st[n]),
                                         !.stack = Pop(@)])))
          [] opr.op = "Load" ->
               IF opr.index \notin DOMAIN f.locals THEN CRaise
               ELSE CState(heap, WithTop(frames, Advance([f EXCEPT !.stack =
                                                      Append(@, f.locals[opr.index])])))
          [] opr.op = "Goto" ->
               CState(heap, WithTop(frames, [f EXCEPT !.offset = opr.target]))
          [] opr.op = "ArrayLoad" ->
               IF n < 2 THEN CRaise
               ELSE CArrayLoad(heap, frames, [f EXCEPT !.stack = Pop2(@)], st[n],
                               st[n - 1])
          [] opr.op = "Cast" -> CState(heap, WithTop(frames, Advance(f)))
          [] opr.op = "NewArray" ->
               IF n = 0 THEN CRaise
               ELSE IF st[n].type # "int" THEN CRaise
               ELSE
                 LET keys == DOMAIN heap
                     \* max(state.heap.keys(), default=-1) + 1
                     heap_index == IF keys = {} THEN 0
                                   ELSE (CHOOSE k \in keys :
                                           \A j \in keys : j <= k) + 1
                     \* [0] * v1.value, empty for a negative dimension
                     len == IF st[n].value < 0 THEN 0 ELSE st[n].value
                     array == HeapList([i \in 1..len |-> 0])
                 IN  CState(DictPut(heap, heap_index, array),
                            WithTop(frames,
                                    Advance([f EXCEPT !.stack =
                                               Append(Pop(@), HeapRef(heap_index))])))
          [] opr.op = "ArrayLength" ->
               IF n = 0 THEN CRaise
               ELSE IF st[n].type # "ref" THEN CRaise
               ELSE
                 LET push(len) == CState(heap, WithTop(frames,
                                     Advance([f EXCEPT !.stack =
                                                Append(Pop(@), IntV(len))])))
                 IN  IF st[n].kind = "none" THEN CLabel("null pointer")
                     ELSE IF st[n].kind = "tuple"
                     THEN IF st[n].content = << >> THEN CLabel("assertion error")
                          ELSE push(st[n].content[1])
                     ELSE IF st[n].value \notin DOMAIN heap THEN CRaise
                     ELSE IF heap[st[n].value].islist
                     THEN push(Len(heap[st[n].value].items))
                     \* array.value of a stored jvm.Value; the methods of the
                     \* model store ints only
                     ELSE IF heap[st[n].value].val.type = "int"
                     THEN push(heap[st[n].value].val.value)
                     ELSE CRaise
          [] opr.op = "ArrayStore" ->
               IF n < 3 THEN CRaise
               ELSE
                 LET v == st[n]
                     i == st[n - 1]
                     af == st[n - 2]
                     popped == [f EXCEPT !.stack = SubSeq(@, 1, n - 3)]
                 IN  IF af.type # "ref" \/ i.type # "int" THEN CRaise
                     ELSE IF af.kind = "none" THEN CLabel("null pointer")
                     \* state.heap.get(af.value) is None for a tuple and for
                     \* an index the heap does not hold
                     ELSE IF af.kind = "tuple" THEN CLabel("null pointer")
                     ELSE IF af.value \notin DOMAIN heap THEN CLabel("null pointer")
                     ELSE IF heap[af.value].islist
                             /\ Len(heap[af.value].items) <= 0
                     THEN CLabel("out of bounds")
                     ELSE IF heap[af.value].islist
                             /\ (i.value < 0
                                 \/ i.value >= Len(heap[af.value].items))
                     THEN CLabel("out of bounds")
                     \* state.heap[af.value + i.value] = v
                     ELSE CState(DictPut(heap, af.value + i.value, HeapValue(v)),
                                 WithTop(frames, Advance(popped)))
          [] OTHER -> CRaise

\* the state of the interpreter's module-level driver
ConcIdle ==
    [status |-> "idle", input |-> << >>, heap |-> << >>, frames |-> << >>,
     iter |-> 0, label |-> ""]

\* ------------------------------------------------------------------------
\* The Sign domain and the abstract states (static_analysis/abstractions.py)
\* ------------------------------------------------------------------------

Signs == {"+", "-", "0"}

\* a Sign object: values is a Python set, except for the object Sign.top()
\* builds, whose values is the tuple ("+", "-", "0")
Sign(values) == [values |-> values, tuple |-> FALSE]

SignTop == [values |-> Signs, tuple |-> TRUE]

SignBottom == Sign({})

\* the outcome of a Python expression: a value, or an exception
Val(v) == [raised |-> FALSE, v |-> v]
Exc == [raised |-> TRUE, v |-> << >>]

\* Sign.__le__: set <= set is inclusion, tuple <= tuple compares the equal
\* tuples, a set against a tuple is a TypeError
SignLe(a, b) ==
    IF a.tuple /\ b.tuple THEN Val(TRUE)
    ELSE IF a.tuple \/ b.tuple THEN Exc
    ELSE Val(a.values \subseteq b.values)

\* Sign.join: the operator | is defined on two sets only
SignJoin(a, b) ==
    IF a.tuple \/ b.tuple THEN Exc
    ELSE Val(Sign(a.values \cup b.values))

\* Sign.meet
SignMeet(a, b) ==
    IF a.tuple \/ b.tuple THEN Exc
    ELSE Val(Sign(a.values \cap b.values))

\* the sign of an integer
SignOf(v) == IF v > 0 THEN "+" ELSE IF v < 0 THEN "-" ELSE "0"

\* Sign.abstract on a set of integers (an int is first wrapped in a set)
SignAbstract(vs) == Sign({SignOf(v) : v \in vs})

sign_add(x, y) ==
    IF x = "0" THEN {y}
    ELSE IF y = "0" THEN {x}
    ELSE IF x = y THEN {x}
    ELSE Signs

sign_div(x, y) ==
    IF y = "0" THEN Signs
    ELSE IF x = "0" THEN {"0"}
    ELSE IF x = y THEN {"+"}
    ELSE {"-"}

sign_sub(x, y) ==
    IF y = "0" THEN {x}
    ELSE IF x = "0" THEN (IF y = "+" THEN {"-"} ELSE {"+"})
    ELSE IF x = y THEN Signs
    ELSE IF x = "+" /\ y = "-" THEN {"+"}
    ELSE IF x = "-" /\ y = "+" THEN {"-"}
    ELSE Signs

sign_mul(x, y) ==
    IF x = "0" \/ y = "0" THEN {"0"}
    ELSE IF x = y THEN {"+"}
    ELSE {"-"}

\* Sign.binary_op: the union of the table over the pairs of signs
binary_op(a, b, op) ==
    Sign(UNION {(CASE op = "add" -> sign_add(x, y)
                   [] op = "sub" -> sign_sub(x, y)
                   [] op = "mul" -> sign_mul(x, y)
                   [] op = "div" -> sign_div(x, y)) : x \in a.values, y \in b.values})

Max(a, b) == IF a >= b THEN a ELSE b

\* a PerVarFrame: locals is a dict from slot to Sign, stack a list of Signs
PerVarFrame(locals, stack, offset) ==
    [locals |-> locals, stack |-> stack, offset |-> offset]

\* an AState: heap is a dict from key to Sign, frames the stack of frames
AState(heap, frames) == [heap |-> heap, frames |-> frames]

\* the key-wise join of two dicts of Signs: a key of one side only keeps its
\* value, a key of both sides gets Sign.join
DictJoin(d1, d2) ==
    IF \E k \in (DOMAIN d1) \cap (DOMAIN d2) : SignJoin(d1[k], d2[k]).raised
    THEN Exc
    ELSE Val([k \in (DOMAIN d1) \cup (DOMAIN d2) |->
                IF k \notin DOMAIN d1 THEN d2[k]
                ELSE IF k \notin DOMAIN d2 THEN d1[k]
                ELSE SignJoin(d1[k], d2[k]).v])

\* PerVarFrame.join
FrameJoin(f1, f2) ==
    LET \* the position-wise join of two operand stacks, the shorter padded with
        \* Sign.bottom()
        StackJoin(s1, s2) ==
            LET n == Max(Len(s1), Len(s2))
                at(st, i) == IF i <= Len(st) THEN st[i] ELSE SignBottom
            IN  IF \E i \in 1..n : SignJoin(at(s1, i), at(s2, i)).raised THEN Exc
                ELSE Val([i \in 1..n |-> SignJoin(at(s1, i), at(s2, i)).v])
    IN  LET jl == DictJoin(f1.locals, f2.locals)
            js == StackJoin(f1.stack, f2.stack)
        IN  IF jl.raised \/ js.raised THEN Exc
            ELSE Val(PerVarFrame(jl.v, js.v, Max(f1.offset, f2.offset)))

\* AState.join: the heaps are joined key-wise; the frame lists are joined
\* position-wise with the pad Sign.bottom(), and a frame joined with the pad
\* (either way round) is an AttributeError
AStateJoin(a, b) ==
    LET jh == DictJoin(a.heap, b.heap)
        n == Len(a.frames)
    IN  IF jh.raised THEN Exc
        ELSE IF Len(a.frames) # Len(b.frames) THEN Exc
        ELSE IF \E i \in 1..n : FrameJoin(a.frames[i], b.frames[i]).raised
        THEN Exc
        ELSE Val(AState(jh.v,
                        [i \in 1..n |-> FrameJoin(a.frames[i], b.frames[i]).v]))

\* ------------------------------------------------------------------------
\* The abstract interpreter (static_analysis/abstract_interpreter.py)
\* ------------------------------------------------------------------------

MAX_ITERATIONS == 1000

\* What one call of step does.  self is the AState object passed in as the
\* call leaves it (several cases change it in place); succs is the returned
\* list, whose items are a label, the object passed in itself, or a new
\* object.
ARaise(self) == [raised |-> TRUE, self |-> self, succs |-> << >>]
AOut(self, succs) == [raised |-> FALSE, self |-> self, succs |-> succs]
ALabelItem(l) == [kind |-> "label", label |-> l]
ASameItem == [kind |-> "same"]
ANewItem(st) == [kind |-> "new", st |-> st]

\* the AState with its top frame replaced by f
AWithTop(state, f) ==
    [state EXCEPT !.frames = [@ EXCEPT ![Len(@)] = f]]

\* Return: the value (if any) was popped, the frame is popped; with a caller
\* left the same object continues there, otherwise the label is ok
AReturn(state, vals) ==
    LET rest == Pop(state.frames)
        popped == [state EXCEPT !.frames = rest]
    IN  IF rest = << >> THEN AOut(popped, <<ALabelItem("ok")>>)
        ELSE LET caller == rest[Len(rest)]
             IN  AOut(AWithTop(popped,
                               [caller EXCEPT !.stack = @ \o vals,
                                              !.offset = @ + 1]),
                      <<ASameItem>>)

\* step(state) of the abstract interpreter on method m
astep(m, state) ==
    LET \* jump_possible and nojump_possible of Ifz for the sign set vals
        IfzJump(c, vals) ==
            CASE c = "ne" -> ~("0" \in vals /\ Cardinality(vals) = 1)
              [] c = "eq" -> "0" \in vals
              [] c = "gt" -> "+" \in vals
              [] c = "ge" -> "+" \in vals \/ "0" \in vals
              [] c = "lt" -> "-" \in vals
              [] c = "le" -> "-" \in vals \/ "0" \in vals
        IfzNoJump(c, vals) ==
            CASE c = "ne" -> "0" \in vals
              [] c = "eq" -> \E val \in vals : val # "0"
              [] c = "gt" -> "-" \in vals \/ "0" \in vals
              [] c = "ge" -> "-" \in vals
              [] c = "lt" -> "+" \in vals \/ "0" \in vals
              [] c = "le" -> "+" \in vals
    IN  IF state.frames = << >> THEN ARaise(state)
        ELSE
        LET frame == state.frames[Len(state.frames)]
            st == frame.stack
            n == Len(st)
        IN
        IF ~OffsetInRange(m, frame.offset) THEN ARaise(state)
        ELSE
        LET opr == Opcode(m, frame.offset) IN
        CASE opr.op = "Push" ->
               IF opr.vtype # "int" THEN ARaise(state)
               ELSE AOut(state,
                         <<ANewItem(AWithTop(state,
                              [frame EXCEPT !.stack = Append(@, SignAbstract({opr.value})),
                                            !.offset = @ + 1]))>>)
          [] opr.op = "Load" ->
               IF opr.index \notin DOMAIN frame.locals THEN ARaise(state)
               ELSE AOut(state,
                         <<ANewItem(AWithTop(state,
                              [frame EXCEPT !.stack = Append(@, frame.locals[opr.index]),
                                            !.offset = @ + 1]))>>)
          [] opr.op = "Binary" /\ opr.operant = "Div" ->
               IF n < 2 THEN ARaise(state)
               ELSE IF "0" \in st[n].values
               THEN AOut(state, <<ALabelItem("divide by zero")>>)
               ELSE AOut(state,
                         <<ANewItem(AWithTop(state,
                              [frame EXCEPT !.stack =
                                              Append(Pop2(@),
                                                     binary_op(st[n - 1], st[n], "div")),
                                            !.offset = @ + 1]))>>)
          [] opr.op = "Binary" /\ opr.operant = "Sub" ->
               IF n < 2 THEN ARaise(state)
               ELSE AOut(state,
                         <<ANewItem(AWithTop(state,
                              [frame EXCEPT !.stack =
                                              Append(Pop2(@),
                                                     binary_op(st[n - 1], st[n], "sub")),
                                            !.offset = @ + 1]))>>)
          [] opr.op = "Return" ->
               IF opr.type \in {"int", "ref"}
               THEN IF n = 0 THEN ARaise(state)
                    ELSE AReturn(AWithTop(state, [frame EXCEPT !.stack = Pop(@)]),
                                 <<st[n]>>)
               ELSE IF opr.type = "void" THEN AReturn(state, << >>)
               ELSE ARaise(state)
          [] opr.op = "Get" ->
               AOut(AWithTop(state,
                             [frame EXCEPT !.stack = Append(@, SignAbstract({0})),
                                           !.offset = @ + 1]),
                    <<ASameItem>>)
          [] opr.op = "Ifz" ->
               IF n = 0 THEN ARaise(state)
               ELSE
                 LET vals == st[n].values
                     popped == AWithTop(state, [frame EXCEPT !.stack = Pop(@)])
                     pf == popped.frames[Len(popped.frames)]
                     sj == AWithTop(popped, [pf EXCEPT !.offset = opr.target])
                     sn == AWithTop(popped, [pf EXCEPT !.offset = @ + 1])
                 IN  IF opr.condition \notin CConditions THEN ARaise(popped)
                     ELSE AOut(popped,
                               (IF IfzJump(opr.condition, vals)
                                THEN <<ANewItem(sj)>> ELSE << >>)
                               \o (IF IfzNoJump(opr.condition, vals)
                                   THEN <<ANewItem(sn)>> ELSE << >>))
          [] opr.op = "New" -> AOut(state, <<ALabelItem("assertion error")>>)
          [] opr.op = "If" ->
               \* both operands are popped; then `jump |= ...` reads the local
               \* jump before any assignment, and with an empty operand the
               \* else branch reads sj before any assignment
               IF n < 2 THEN ARaise(state)
               ELSE ARaise(AWithTop(state, [frame EXCEPT !.stack = Pop2(@)]))
          [] opr.op = "Goto" ->
               AOut(AWithTop(state, [frame EXCEPT !.offset = opr.target]),
                    <<ASameItem>>)
          [] opr.op = "Store" ->
               IF n = 0 THEN ARaise(state)
               ELSE AOut(AWithTop(state,
                                  [frame EXCEPT !.locals = DictPut(@, opr.index, st[n]),
                                                !.stack = Pop(@),
                                                !.offset = @ + 1]),
                         <<ASameItem>>)
          [] opr.op = "Dup" ->
               \* v.copy(): Sign has no copy method
               ARaise(state)
          [] OTHER -> ARaise(state)

\* lines 289-304 for the successors items[i..]: acc holds objs (the AState
\* objects), amap (analysis_map, offset -> object), wl, final and raised; id is
\* the object step was called on.  A successor at an offset that has a state
\* already is joined with it and the result is asked for is_le, a method
\* AState does not have.
RECURSIVE ProcessSuccs(_, _, _, _)
ProcessSuccs(items, i, id, acc) ==
    IF i > Len(items) \/ acc.raised THEN acc
    ELSE
    LET it == items[i] IN
    IF it.kind = "label"
    THEN ProcessSuccs(items, i + 1, id,
                      [acc EXCEPT !.final = Append(@, it.label)])
    ELSE
    LET succ == IF it.kind = "same" THEN acc.objs[id] ELSE it.st
        succ_pc == succ.frames[Len(succ.frames)].offset
    IN  IF succ_pc \in DOMAIN acc.amap
        THEN [acc EXCEPT !.raised = TRUE]
        ELSE LET objs2 == IF it.kind = "same" THEN acc.objs
                          ELSE Append(acc.objs, succ)
                 sid == IF it.kind = "same" THEN id ELSE Len(objs2)
             IN  ProcessSuccs(items, i + 1, id,
                              [acc EXCEPT !.objs = objs2,
                                          !.amap = DictPut(@, succ_pc, sid),
                                          !.wl = Append(@, succ_pc)])

\* lines 308-317 with ok tested first
classify_ok_first(final) ==
    LET has(l) == \E i \in 1..Len(final) : final[i] = l IN
    IF has("ok") THEN "ok"
    ELSE IF has("divide by zero") THEN "divide by zero"
    ELSE IF has("assertion error") THEN "assertion error"
    ELSE IF final # << >> THEN "terminal states"
    ELSE "*"

\* lines 308-317: what is printed for the list final
classify(final) ==
    LET has(l) == \E i \in 1..Len(final) : final[i] = l IN
    IF has("divide by zero") THEN "divide by zero"
    ELSE IF has("assertion error") THEN "assertion error"
    ELSE IF has("ok") THEN "ok"
    ELSE IF final # << >> THEN "terminal states"
    ELSE "*"

\* the abstract interpreter before it is started
AbsIdle ==
    [status |-> "idle", input |-> << >>, objs |-> << >>, amap |-> << >>,
     wl |-> << >>, final |-> << >>, count |-> 0, printed |-> ""]

\* ------------------------------------------------------------------------
\* Single calls of the functions of abstractions.py, on the inputs the
\* repository's tests draw (tests/abstractions.py): sets of integers for
\* Sign.abstract and Sign.binary_op, Sign objects, AStates
\* ------------------------------------------------------------------------

\* the integers drawn are -IntBound..IntBound
IntBound == 2

IntDom == (-IntBound)..IntBound

\* the Sign objects: one per set of signs, and the object Sign.top() returns
SignElems == {Sign(vs) : vs \in SUBSET Signs} \cup {SignTop}

\* the lookups of one Bytecode object that are followed
MaxLookups == 3

\* the deepest stack of a state handed to a single call of step
MaxStack == 3

\* a Bytecode that asks the provider on every lookup and stores nothing
BytecodeGetitemNoStore(methods, m, offset) ==
    LET opcodes == Methods[m].code
    IN  [methods |-> methods,
         called |-> TRUE,
         res |-> IF offset < Len(opcodes) THEN Val(opcodes[offset + 1]) ELSE Exc]

\* Bytecode.__getitem__(PC(m, offset)) on the dict methods: the stored list,
\* or on KeyError list(suite.method_opcodes(m)), which is stored; then
\* opcodes[offset], an IndexError past the end
BytecodeGetitem(methods, m, offset) ==
    LET hit == m \in DOMAIN methods
        opcodes == IF hit THEN methods[m] ELSE Methods[m].code
    IN  [methods |-> IF hit THEN methods ELSE DictPut(methods, m, opcodes),
         called |-> ~hit,
         res |-> IF offset < Len(opcodes) THEN Val(opcodes[offset + 1]) ELSE Exc]

\* the AStates drawn: at most MaxFrames frames
MaxFrames == 2

SmallAStates ==
    LET \* the frames drawn: locals and operand stacks of different sizes
        SmallFrames ==
            {PerVarFrame(l, st, 0) :
                l \in {<< >>, DictPut(<< >>, 0, Sign({"+"}))},
                st \in {<< >>, <<Sign({"-"})>>, <<Sign({"+"}), Sign({"0"})>>}}
    IN  {AState(h, fs) :
            h \in {<< >>, DictPut(<< >>, 0, Sign({"0"}))},
            fs \in UNION {[1..n -> SmallFrames] : n \in 0..MaxFrames}}

\* ------------------------------------------------------------------------
\* Worklist strategies (strategy.py)
\* ------------------------------------------------------------------------

\* both strategies taking the head of the worklist
StrategyNextHead(strategy, wl) == wl[1]

\* DFSStrategy.next is worklist.pop(), BFSStrategy.next is worklist.pop(0)
StrategyNext(strategy, wl) ==
    IF strategy = "dfs" THEN wl[Len(wl)] ELSE wl[1]

\* a next that takes a second state off the worklist along with the popped
\* one
StrategyRestTwo(strategy, wl) ==
    IF strategy = "dfs" THEN SubSeq(wl, 1, Len(wl) - 2)
    ELSE SubSeq(wl, 3, Len(wl))

StrategyRest(strategy, wl) ==
    IF strategy = "dfs" THEN SubSeq(wl, 1, Len(wl) - 1)
    ELSE SubSeq(wl, 2, Len(wl))

\* ------------------------------------------------------------------------
\* The scorer (analysis.py, summarize)
\* ------------------------------------------------------------------------

NamedLabels ==
    {"ok", "assertion error", "divide by zero", "out of bounds",
     "null pointer"}

OutcomeCatalog == NamedLabels \cup {"*"}

\* the key under which summarize counts a finding of kind k
CountKey(k) == IF k \in NamedLabels THEN k ELSE "*"

\* the proportional policy: the share of the findings counted under label
score_proportional(fs, label) ==
    LET hits == {i \in 1..Len(fs) :
                    fs[i].kind # "None" /\ CountKey(fs[i].kind) = label}
        all == {i \in 1..Len(fs) : fs[i].kind # "None"}
    IN  IF all = {} THEN 0 ELSE (100 * Cardinality(hits)) \div Cardinality(all)

score(fs, label) ==
    IF \E i \in 1..Len(fs) :
          fs[i].kind # "None" /\ CountKey(fs[i].kind) = label
    THEN 100 ELSE 0

\* the lines printed, in order, as <<label, percentage>>
summarize(fs) ==
    LET LabelOrder ==
            <<"assertion error", "ok", "*", "divide by zero", "out of bounds",
              "null pointer">>
    IN  [i \in 1..Len(LabelOrder) |-> <<LabelOrder[i], score(fs, LabelOrder[i])>>]

\* ------------------------------------------------------------------------
\* SymbolicExecutor.run and main (executor.py, analysis.py)
\* ------------------------------------------------------------------------

VARIABLES
    method,     \* the entry method of the frontend
    config,     \* the SEConfig
    initial,    \* the object passed to run as initial_state
    worklist,   \* the strategy's worklist
    findings,   \* the findings list of run
    steps,      \* the global step counter of run
    ctl,        \* "loop", "returned", "raised" or "summarized"
    output,     \* the lines printed by summarize
    hist,       \* history: what the last loop iteration did
    conc,       \* the concrete interpreter's run on one input
    absint,     \* the abstract interpreter's run on one input
    calc        \* one call of a function of abstractions.py and its result

vars == <<method, config, initial, worklist, findings, steps, ctl, output,
          hist, conc, absint, calc>>

\* PathConstraint (path.py) defines add, extend and copy only: evaluating
\* state.path_constraint.depth() raises AttributeError
PathDepthRaises == TRUE

Configs ==
    [strategy : {"dfs", "bfs"},
     use_solver : BOOLEAN,
     max_steps : {<< >>, <<0>>, <<3>>, <<MAX_STEPS_PER_STATE \div 2>>,
                  <<DEFAULT_MAX_STEPS>>},
     max_depth : {<< >>, <<0>>, <<DEFAULT_MAX_DEPTH>>},
     debug : BOOLEAN]

\* stamps runs parallel to the worklist and numbers its states in the order
\* of their addition (the initial state is 1); popstamp is the number of the
\* state popped last, npopped the number of pops, nadded of additions
NoHist == [branch |-> "none", state |-> SymbolicState(0), added |-> << >>,
           nstep |-> 0, stamps |-> <<1>>, popstamp |-> 0, npopped |-> 0,
           nadded |-> 1]

Init ==
    /\ method \in MethodNames
    /\ config \in Configs
    /\ initial = initial_state(method)
    /\ worklist = <<initial_state(method)>>
    /\ findings = << >>
    /\ steps = 0
    /\ ctl = "loop"
    /\ output = << >>
    /\ hist = NoHist
    /\ conc = ConcIdle
    /\ absint = AbsIdle
    /\ calc = ([fn |-> "none", done |-> FALSE])

\* the state the next iteration pops
Popped == StrategyNext(config.strategy, worklist)
Rest == StrategyRest(config.strategy, worklist)

Iterating == ctl = "loop" /\ worklist # << >>

Record(branch, added, stepped) ==
    [branch |-> branch, state |-> Popped, added |-> added,
     nstep |-> hist.nstep + (IF stepped THEN 1 ELSE 0),
     stamps |-> IF branch = "global_stop" THEN << >>
                ELSE StrategyRest(config.strategy, hist.stamps)
                     \o [i \in 1..Len(added) |-> hist.nadded + i],
     popstamp |-> StrategyNext(config.strategy, hist.stamps),
     npopped |-> hist.npopped + 1,
     nadded |-> hist.nadded + Len(added)]

\* the finding built from the state as it is, without the "ok" default
FindingOfRaw(state, src) == FindingFromState(state, src)

\* label = state.error or "ok"; the finding is built from a copy carrying it
FindingOf(state, src) ==
    FindingFromState(
        [state EXCEPT !.error = IF @ = "None" THEN "ok" ELSE @], src)

\* a terminated state recorded without the feasibility re-check
PopTerminatedUnchecked ==
    /\ Iterating
    /\ Popped.terminated
    /\ findings' = Append(findings, FindingOf(Popped, "terminated"))
    /\ hist' = Record("finding", << >>, FALSE)
    /\ worklist' = Rest
    /\ UNCHANGED <<calc, absint, conc, method, config, initial, steps, ctl, output>>

\* lines 43-66: a terminated state is pruned when unsat, else recorded
PopTerminated ==
    /\ Iterating
    /\ Popped.terminated
    /\ IF config.use_solver /\ solver_raises(Popped.path_constraint)
       THEN /\ ctl' = "raised"
            /\ hist' = Record("raise", << >>, FALSE)
            /\ UNCHANGED findings
       ELSE IF config.use_solver /\ ~is_sat(Popped.path_constraint)
       THEN /\ hist' = Record("prune_term", << >>, FALSE)
            /\ UNCHANGED <<findings, ctl>>
       ELSE /\ findings' = Append(findings, FindingOf(Popped, "terminated"))
            /\ hist' = Record("finding", << >>, FALSE)
            /\ UNCHANGED ctl
    /\ worklist' = Rest
    /\ UNCHANGED <<calc, absint, conc, method, config, initial, steps, output>>

\* the per-state bound classifying the dropped path as "*"
DropPerStateStar ==
    /\ Iterating
    /\ ~Popped.terminated
    /\ Popped.steps >= MAX_STEPS_PER_STATE
    /\ worklist' = Rest
    /\ findings' = Append(findings,
                          FindingFromState(Terminate(Popped, "*"), "terminated"))
    /\ hist' = Record("drop_per_state", << >>, FALSE)
    /\ UNCHANGED <<calc, absint, conc, method, config, initial, steps, ctl, output>>

\* lines 69-78: the per-state bound
DropPerState ==
    /\ Iterating
    /\ ~Popped.terminated
    /\ Popped.steps >= MAX_STEPS_PER_STATE
    /\ worklist' = Rest
    /\ hist' = Record("drop_per_state", << >>, FALSE)
    /\ UNCHANGED <<calc, absint, conc, method, config, initial, findings, steps, ctl, output>>

\* the bound checks reached without the `continue` of line 66
PastPerStateAny ==
    /\ Iterating
    /\ Popped.steps < MAX_STEPS_PER_STATE

PastPerState ==
    /\ Iterating
    /\ ~Popped.terminated
    /\ Popped.steps < MAX_STEPS_PER_STATE

\* lines 80-88: the debug print evaluates path_constraint.depth()
DebugPrint ==
    /\ PastPerState
    /\ config.debug /\ PathDepthRaises
    /\ ctl' = "raised"
    /\ worklist' = Rest
    /\ hist' = Record("raise", << >>, FALSE)
    /\ UNCHANGED <<calc, absint, conc, method, config, initial, findings, steps, output>>

PastDebug == PastPerState /\ ~(config.debug /\ PathDepthRaises)

\* the global bound compared with > instead of >=
GlobalBoundHitLate == config.max_steps # << >> /\ steps > config.max_steps[1]

GlobalBoundHit == config.max_steps # << >> /\ steps >= config.max_steps[1]

\* lines 91-96: the global bound clears the worklist and leaves the loop
GlobalStop ==
    /\ PastDebug
    /\ GlobalBoundHit
    /\ worklist' = << >>
    /\ hist' = Record("global_stop", << >>, FALSE)
    /\ UNCHANGED <<calc, absint, conc, method, config, initial, findings, steps, ctl, output>>

PastGlobal == PastDebug /\ ~GlobalBoundHit /\ steps < StepCap

\* lines 98-110: steps += 1, then the depth bound calls depth()
DepthBound ==
    /\ PastGlobal
    /\ config.max_depth # << >> /\ PathDepthRaises
    /\ steps' = steps + 1
    /\ ctl' = "raised"
    /\ worklist' = Rest
    /\ hist' = Record("raise", << >>, FALSE)
    /\ UNCHANGED <<calc, absint, conc, method, config, initial, findings, output>>

PastDepth == PastGlobal /\ ~(config.max_depth # << >> /\ PathDepthRaises)

\* lines 113-120: an unsat non-terminated state is dropped (the counter has
\* been incremented at line 98)
PruneUnsat ==
    /\ PastDepth
    /\ config.use_solver
    /\ ~solver_raises(Popped.path_constraint)
    /\ ~is_sat(Popped.path_constraint)
    /\ steps' = steps + 1
    /\ worklist' = Rest
    /\ hist' = Record("prune", << >>, FALSE)
    /\ UNCHANGED <<calc, absint, conc, method, config, initial, findings, ctl, output>>

\* successors pushed with a fresh per-path counter
SetStepsReset(succs, parent_steps) ==
    [i \in 1..Len(succs) |-> [succs[i] EXCEPT !.steps = 0]]

\* succ.steps = state.steps + 1 for each successor, state being the object
\* frontend.step has already incremented
SetSteps(succs, parent_steps) ==
    [i \in 1..Len(succs) |-> [succs[i] EXCEPT !.steps = parent_steps + 1]]

RECURSIVE AddAll(_, _)
AddAll(wl, succs) ==
    IF succs = << >> THEN wl
    ELSE AddAll((Append(wl, (Head(succs)))), Tail(succs))

\* lines 113-144: the solver check passes (or raises) and the state is
\* expanded by frontend.step
Expand ==
    /\ PastDepth
    /\ steps' = steps + 1
    /\ IF config.use_solver /\ solver_raises(Popped.path_constraint)
       THEN /\ ctl' = "raised"
            /\ worklist' = Rest
            /\ hist' = Record("raise", << >>, FALSE)
            /\ UNCHANGED <<findings, initial>>
       ELSE
         /\ config.use_solver => is_sat(Popped.path_constraint)
         /\ LET r == step(method, Popped)
                stepped == [Popped EXCEPT !.steps = @ + 1]
                succs == SetSteps(r.succ, stepped.steps)
            IN  /\ initial' = IF hist.branch = "none" THEN stepped
                              ELSE initial
                /\ IF r.raised
                   THEN /\ ctl' = "raised"
                        /\ worklist' = Rest
                        /\ hist' = Record("raise", << >>, TRUE)
                        /\ UNCHANGED findings
                   ELSE IF r.succ = << >>
                   THEN /\ findings' =
                              Append(findings, FindingOf(stepped, "implicit"))
                        /\ worklist' = Rest
                        /\ hist' = Record("implicit", << >>, TRUE)
                        /\ UNCHANGED ctl
                   ELSE /\ worklist' = AddAll(Rest, succs)
                        /\ hist' = Record("expand", succs, TRUE)
                        /\ UNCHANGED <<findings, ctl>>
    /\ UNCHANGED <<calc, absint, conc, method, config, output>>

\* the synthetic finding: initial_state.copy() with terminated and error "*"
Synthetic(init) ==
    FindingFromState(Terminate(init, "*"), "synthetic")

\* the "*" finding appended whatever was found
FinishAlways ==
    /\ ctl = "loop"
    /\ worklist = << >>
    /\ findings' = Append(findings, Synthetic(initial))
    /\ ctl' = "returned"
    /\ UNCHANGED <<calc, absint, conc, method, config, initial, worklist, steps, output, hist>>

\* lines 146-156: after the loop
Finish ==
    /\ ctl = "loop"
    /\ worklist = << >>
    /\ findings' = IF findings = << >> THEN <<Synthetic(initial)>>
                   ELSE findings
    /\ ctl' = "returned"
    /\ UNCHANGED <<calc, absint, conc, method, config, initial, worklist, steps, output, hist>>

\* main: summarize(findings) on the list run returned
Summarize ==
    /\ ctl = "returned"
    /\ output' = summarize(findings)
    /\ ctl' = "summarized"
    /\ UNCHANGED <<calc, absint, conc, method, config, initial, worklist, findings, steps, hist>>

\* interpreter.py lines 479-502: the case's input is loaded into the locals
\* of the entry frame
ConcStart ==
    LET \* the input lists of method m
        Inputs(m) ==
            LET \* the values a case may give to a parameter of the given descriptor type;
                \* a boolean is turned into the int 1 or 0, an array into a Reference
                \* holding its tuple
                InputValues(t) ==
                    LET \* a Reference value holding the tuple of an array argument
                        TupleRef(content) == [type |-> "ref", kind |-> "tuple", content |-> content]
                    IN  CASE t = "I" -> {IntV(v) : v \in {-1, 0, 2}}
                          [] t = "Z" -> {IntV(0), IntV(1)}
                          [] t = "[I" -> {TupleRef(<< >>), TupleRef(<<3>>), TupleRef(<<1, 2>>)}
            IN  {inp \in [1..Len(Methods[m].args) -> UNION {InputValues(t) : t \in {"I", "Z", "[I"}}] :
                    \A i \in 1..Len(Methods[m].args) : inp[i] \in InputValues(Methods[m].args[i])}
    IN  /\ ctl \in {"returned", "raised"}
        /\ conc.status = "pending"
        /\ \E inp \in Inputs(method) :
              conc' = [status |-> "running", input |-> inp, iter |-> 0,
                       label |-> "", heap |-> << >>,
                       frames |-> <<[FrameFromMethod(method) EXCEPT
                                       !.locals = [i \in 0..(Len(inp) - 1) |->
                                                     inp[i + 1]]]>>]
        /\ UNCHANGED <<calc, absint, method, config, initial, worklist, findings, steps,
                       ctl, output, hist>>

\* interpreter.py lines 504-508: one iteration of the driver loop
ConcStep ==
    /\ conc.status = "running"
    /\ conc.iter < CONCRETE_ITERATIONS
    /\ LET r == cstep(conc.heap, conc.frames) IN
         conc' = CASE r.kind = "state" ->
                        [conc EXCEPT !.heap = r.heap, !.frames = r.frames,
                                     !.iter = @ + 1]
                   [] r.kind = "label" ->
                        [conc EXCEPT !.status = "label", !.label = r.label,
                                     !.heap = << >>, !.frames = << >>,
                                     !.iter = @ + 1]
                   [] r.kind = "raise" ->
                        [conc EXCEPT !.status = "raised", !.heap = << >>,
                                     !.frames = << >>, !.iter = @ + 1]
    /\ UNCHANGED <<calc, absint, method, config, initial, worklist, findings, steps,
                   ctl, output, hist>>

\* interpreter.py lines 509-510: the else of the driver loop
ConcTimeout ==
    /\ conc.status = "running"
    /\ conc.iter = CONCRETE_ITERATIONS
    /\ conc' = [conc EXCEPT !.status = "label", !.label = "*",
                            !.heap = << >>, !.frames = << >>]
    /\ UNCHANGED <<calc, absint, method, config, initial, worklist, findings, steps,
                   ctl, output, hist>>

\* abstract_interpreter.py lines 237-275: the input is abstracted into the
\* locals of the entry frame; the map holds the entry state at the start
\* offset and the worklist that offset
AbsStart ==
    LET \* lines 241-267: the Sign of one input value; an array argument is wrapped
        \* in a jvm.Value whose comparison with 0 in Sign.abstract is a TypeError
        AbsInputLoads(m, inp) ==
            \A i \in 1..Len(inp) : Methods[m].args[i] \in {"I", "Z"}
        AbsInputLocals(inp) ==
            [i \in 0..(Len(inp) - 1) |-> SignAbstract({inp[i + 1].value})]
    IN  /\ absint.status = "pending"
        /\ conc.status \in {"label", "raised"}
        /\ absint' =
             IF ~AbsInputLoads(method, conc.input)
             THEN [absint EXCEPT !.status = "raised", !.input = conc.input]
             ELSE [absint EXCEPT
                     !.status = "running",
                     !.input = conc.input,
                     !.objs = <<AState(<< >>,
                                       <<PerVarFrame(AbsInputLocals(conc.input),
                                                     << >>, 0)>>)>>,
                     !.amap = DictPut(<< >>, 0, 1),
                     !.wl = <<0>>]
        /\ UNCHANGED <<calc, conc, method, config, initial, worklist, findings, steps,
                       ctl, output, hist>>

\* lines 276-304: one iteration of the worklist loop
AbsLoop ==
    /\ absint.status = "running"
    /\ absint.wl # << >>
    /\ absint' =
         IF absint.count >= MAX_ITERATIONS
         THEN [absint EXCEPT !.status = "stopped"]
         ELSE
         LET current_pc == Head(absint.wl)
             id == absint.amap[current_pc]
             r == astep(method, absint.objs[id])
             objs1 == [absint.objs EXCEPT ![id] = r.self]
             acc == ProcessSuccs(r.succs, 1, id,
                                 [objs |-> objs1, amap |-> absint.amap,
                                  wl |-> Tail(absint.wl),
                                  final |-> absint.final, raised |-> FALSE])
         IN  IF r.raised
             THEN [absint EXCEPT !.status = "raised", !.objs = objs1,
                                 !.wl = Tail(@)]
             ELSE [absint EXCEPT
                     !.status = IF acc.raised THEN "raised" ELSE "running",
                     !.objs = acc.objs, !.amap = acc.amap, !.wl = acc.wl,
                     !.final = acc.final, !.count = @ + 1]
    /\ UNCHANGED <<calc, conc, method, config, initial, worklist, findings, steps,
                   ctl, output, hist>>

\* lines 308-317: the outcome printed after the loop
AbsClassify ==
    /\ \/ absint.status = "stopped"
       \/ absint.status = "running" /\ absint.wl = << >>
    /\ absint' = [absint EXCEPT !.status = "printed",
                                !.printed = classify(absint.final)]
    /\ UNCHANGED <<calc, conc, method, config, initial, worklist, findings, steps,
                   ctl, output, hist>>

Next ==
    \/ PopTerminated
    \/ DropPerState
    \/ DebugPrint
    \/ GlobalStop
    \/ DepthBound
    \/ PruneUnsat
    \/ Expand
    \/ Finish
    \/ Summarize

Spec == Init /\ [][Next]_vars

\* the executor loop is sequential code: every enabled step is taken
FairSpec == Spec /\ WF_vars(Next)

TypeOK ==
    /\ ctl \in {"loop", "returned", "raised", "summarized"}
    /\ steps \in 0..StepCap

\* ------------------------------------------------------------------------
\* The scorer on its own: summarize applied to every list of at most
\* MaxFindings findings whose kinds are the ones run can produce
\* ------------------------------------------------------------------------

DefaultConfig ==
    [strategy |-> "dfs", use_solver |-> TRUE,
     max_steps |-> <<DEFAULT_MAX_STEPS>>, max_depth |-> <<DEFAULT_MAX_DEPTH>>,
     debug |-> FALSE]

ScorerInit ==
    LET FindingsOfKinds ==
            {[kind |-> k, pc |-> 0, pcInt |-> FALSE, path_constraint |-> << >>,
              return_value |-> << >>, src |-> "terminated"] : k \in OutcomeCatalog}
    IN  /\ method = "add"
        /\ config = DefaultConfig
        /\ initial = initial_state("add")
        /\ worklist = << >>
        /\ findings \in UNION {[1..n -> FindingsOfKinds] : n \in 0..MaxFindings}
        /\ steps = 0
        /\ ctl = "returned"
        /\ output = << >>
        /\ hist = NoHist
        /\ conc = ConcIdle
        /\ absint = AbsIdle
        /\ calc = ([fn |-> "none", done |-> FALSE])

ScorerNext == Summarize

ScorerSpec == ScorerInit /\ [][ScorerNext]_vars

\* ------------------------------------------------------------------------
\* The three analyses of one method side by side: the symbolic engine, then
\* the concrete and the abstract interpreter on one input
\* ------------------------------------------------------------------------

RefInit ==
    LET RefConfigs ==
            {c \in Configs : /\ c.max_depth \in {<< >>, <<DEFAULT_MAX_DEPTH>>}
                             /\ ~c.debug
                             /\ c.max_steps \in {<< >>, <<DEFAULT_MAX_STEPS>>}}
    IN  /\ method \in MethodNames
        /\ config \in RefConfigs
        /\ initial = initial_state(method)
        /\ worklist = <<initial_state(method)>>
        /\ findings = << >>
        /\ steps = 0
        /\ ctl = "loop"
        /\ output = << >>
        /\ hist = NoHist
        /\ conc = [ConcIdle EXCEPT !.status = "pending"]
        /\ absint = [AbsIdle EXCEPT !.status = "pending"]
        /\ calc = ([fn |-> "none", done |-> FALSE])

RefNext ==
    \/ PopTerminated
    \/ DropPerState
    \/ PruneUnsat
    \/ Expand
    \/ Finish
    \/ DepthBound
    \/ ConcStart
    \/ ConcStep
    \/ ConcTimeout
    \/ AbsStart
    \/ AbsLoop
    \/ AbsClassify

RefSpec == RefInit /\ [][RefNext]_vars

\* ------------------------------------------------------------------------
\* One call of Sign.binary_op, of the Sign lattice operations, or of
\* AState.join
\* ------------------------------------------------------------------------

\* the states a caller of JVMFrontend.step hands it for method m: the
\* initial state moved to an offset of the method, with a stack of at most
\* MaxStack values among the constant 0, the first argument, a SymInt
\* reference named after the first argument, and the reference to the first
\* argument's array
StepInputs(m) ==
    LET values == {Conc(0), SymInt(<<"arg", 0>>, << >>),
                   SymInt(<<"arg_ref", 0>>, << >>),
                   SymArrayRef(<<"arg_arr", 0>>)}
        stacks == UNION {[1..n -> values] : n \in 0..MaxStack}
    IN  {[initial_state(m) EXCEPT !.pc = o, !.stack = st] :
            o \in 0..(Len(Methods[m].code) - 1), st \in stacks}

CalcInit ==
    /\ method = "add"
    /\ config = DefaultConfig
    /\ initial = initial_state("add")
    /\ worklist = << >>
    /\ findings = << >>
    /\ steps = 0
    /\ ctl = "returned"
    /\ output = << >>
    /\ hist = NoHist
    /\ conc = ConcIdle
    /\ absint = AbsIdle
    /\ \/ calc \in [fn : {"binary_op"}, done : {FALSE},
                    op : {"add", "sub", "mul", "div"},
                    X : SUBSET IntDom, Y : SUBSET IntDom]
       \/ calc \in [fn : {"lattice"}, done : {FALSE},
                    a : SignElems, b : SignElems, c : SignElems]
       \/ calc \in [fn : {"astate_join"}, done : {FALSE},
                    a : SmallAStates, b : SmallAStates]
       \/ calc = [fn |-> "bytecode", done |-> FALSE, n |-> 0,
                   methods |-> << >>, calls |-> [m \in DOMAIN Methods |-> 0],
                   m |-> "", offset |-> 0, res |-> Exc]
       \/ \E m \in MethodNames : \E s \in StepInputs(m) :
             calc = [fn |-> "step", done |-> FALSE, m |-> m, s |-> s,
                     r |-> Raised, after |-> s, owner |-> << >>]

\* tests/abstractions.py lines 12-46: abstract both sets, apply binary_op
CalcBinaryOp ==
    /\ calc.fn = "binary_op" /\ ~calc.done
    /\ calc' = [fn |-> "binary_op", done |-> TRUE, op |-> calc.op,
                X |-> calc.X, Y |-> calc.Y,
                res |-> binary_op(SignAbstract(calc.X), SignAbstract(calc.Y),
                                  calc.op)]
    /\ UNCHANGED <<absint, conc, method, config, initial, worklist, findings,
                   steps, ctl, output, hist>>

\* Sign.join, Sign.meet and Sign.__le__ on the elements a, b, c: a nested
\* call whose inner call raises raises
CalcLattice ==
    /\ calc.fn = "lattice" /\ ~calc.done
    /\ LET a == calc.a
           b == calc.b
           c == calc.c
           nest2(f(_, _), x, y, z) ==
               IF f(x, y).raised THEN Exc ELSE f(f(x, y).v, z)
           nest1(f(_, _), x, y, z) ==
               IF f(y, z).raised THEN Exc ELSE f(x, f(y, z).v)
       IN  calc' = [fn |-> "lattice", done |-> TRUE, a |-> a, b |-> b, c |-> c,
                    join_ab |-> SignJoin(a, b), join_ba |-> SignJoin(b, a),
                    join_ab_c |-> nest2(SignJoin, a, b, c),
                    join_a_bc |-> nest1(SignJoin, a, b, c),
                    join_aa |-> SignJoin(a, a),
                    meet_ab |-> SignMeet(a, b), meet_ba |-> SignMeet(b, a),
                    meet_ab_c |-> nest2(SignMeet, a, b, c),
                    meet_a_bc |-> nest1(SignMeet, a, b, c),
                    meet_aa |-> SignMeet(a, a),
                    bot_le_a |-> SignLe(SignBottom, a),
                    a_le_top |-> SignLe(a, SignTop)]
    /\ UNCHANGED <<absint, conc, method, config, initial, worklist, findings,
                   steps, ctl, output, hist>>

\* tests/abstractions.py lines 92-96: a.join(b)
CalcAStateJoin ==
    /\ calc.fn = "astate_join" /\ ~calc.done
    /\ calc' = [fn |-> "astate_join", done |-> TRUE, a |-> calc.a,
                b |-> calc.b, res |-> AStateJoin(calc.a, calc.b)]
    /\ UNCHANGED <<absint, conc, method, config, initial, worklist, findings,
                   steps, ctl, output, hist>>

\* one lookup bc[PC(m, offset)] on the Bytecode object; calls counts the
\* calls of suite.method_opcodes per method
CalcLookup ==
    /\ calc.fn = "bytecode" /\ calc.n < MaxLookups
    /\ \E m \in DOMAIN Methods : \E offset \in 0..Len(Methods[m].code) :
          LET r == BytecodeGetitem(calc.methods, m, offset)
          IN  calc' = [fn |-> "bytecode", done |-> TRUE, n |-> calc.n + 1,
                       methods |-> r.methods,
                       calls |-> [calc.calls EXCEPT
                                    ![m] = IF r.called THEN @ + 1 ELSE @],
                       m |-> m, offset |-> offset, res |-> r.res]
    /\ UNCHANGED <<absint, conc, method, config, initial, worklist, findings,
                   steps, ctl, output, hist>>

\* a step whose Store case writes the local into the state it was given
\* and returns that state
StepObjectsInPlace(m, s) ==
    LET r == step(m, s)
        stepped == [s EXCEPT !.steps = @ + 1]
        store == /\ OffsetInRange(m, s.pc)
                 /\ Opcode(m, s.pc).op = "Store"
                 /\ s.stack # << >>
    IN  [after |-> IF store
                   THEN [stepped EXCEPT !.locals = r.succ[1].locals,
                                        !.stack = r.succ[1].stack,
                                        !.pc = r.succ[1].pc]
                   ELSE stepped,
         owner |-> IF store THEN <<0>>
                   ELSE [i \in 1..Len(r.succ) |-> i]]

\* the objects of one call of step: after is the state object the call was
\* given as the call leaves it (s.steps += 1 is the only assignment to s,
\* every case works on s.copy()), and owner[i] numbers the copy() call
\* whose stack list, locals dict and PathConstraint the i-th successor
\* holds, 0 standing for the objects of s itself.  Every case builds each
\* successor from a copy() of its own; assertBoolean copies s once and
\* returns two copies of that copy.
StepObjects(m, s) ==
    LET r == step(m, s)
        assert_call == /\ OffsetInRange(m, s.pc)
                       /\ Opcode(m, s.pc).op = "InvokeStatic"
                       /\ Opcode(m, s.pc).method
                              = "jpamb.cases.Simple.assertBoolean:(Z)V"
    IN  [after |-> [s EXCEPT !.steps = @ + 1],
         owner |-> [i \in 1..Len(r.succ) |->
                       IF assert_call THEN i + 1 ELSE i]]

\* one call of JVMFrontend.step
CalcStep ==
    /\ calc.fn = "step" /\ ~calc.done
    /\ calc' = [calc EXCEPT !.done = TRUE, !.r = step(calc.m, calc.s),
                            !.after = StepObjects(calc.m, calc.s).after,
                            !.owner = StepObjects(calc.m, calc.s).owner]
    /\ UNCHANGED <<absint, conc, method, config, initial, worklist, findings,
                   steps, ctl, output, hist>>

CalcNext ==
    \/ CalcBinaryOp
    \/ CalcLattice
    \/ CalcAStateJoin
    \/ CalcLookup
    \/ CalcStep

CalcSpec == CalcInit /\ [][CalcNext]_vars

\* ------------------------------------------------------------------------
\* Properties
\* ------------------------------------------------------------------------

Returned == ctl \in {"returned", "summarized"}

Pct(fs, label) == IF (\E i \in 1..Len(fs) : fs[i].kind = label) THEN 100 ELSE 0

\* C1: summarize prints exactly six lines, in the order assertion error, ok,
\* *, divide by zero, out of bounds, null pointer, and the line of a label
\* shows 100 when some finding has that kind and 0 otherwise.
C1_ScorerLines ==
    ctl = "summarized" =>
        output = << <<"assertion error", Pct(findings, "assertion error")>>,
                    <<"ok", Pct(findings, "ok")>>,
                    <<"*", Pct(findings, "*")>>,
                    <<"divide by zero", Pct(findings, "divide by zero")>>,
                    <<"out of bounds", Pct(findings, "out of bounds")>>,
                    <<"null pointer", Pct(findings, "null pointer")>> >>

\* summarize has scored a list holding two kinds, twice the same one
C1_Witness ==
    /\ ctl = "summarized"
    /\ Len(findings) = 3
    /\ findings[1].kind = "ok"
    /\ findings[2].kind = "divide by zero"
    /\ findings[3].kind = "ok"
    /\ output[2] = <<"ok", 100>>
    /\ output[3] = <<"*", 0>>

\* C2: with use_solver enabled every finding returned by run carries a path
\* constraint the solver reports satisfiable.
C2_FindingsSatisfiable ==
    (Returned /\ config.use_solver) =>
        \A i \in 1..Len(findings) :
            /\ ~solver_raises(findings[i].path_constraint)
            /\ is_sat(findings[i].path_constraint)

\* run returned a finding of a terminated state with a non-empty path after
\* an infeasible terminated state was met (half: 2 == 0)
C2_Witness ==
    /\ Returned /\ config.use_solver
    /\ method = "half"
    /\ \E i \in 1..Len(findings) :
          findings[i].src = "terminated" /\ findings[i].path_constraint # << >>

\* C3: a terminated state is never passed to the step function and nothing
\* is added to the worklist on its behalf.
C3_TerminatedNotExpanded ==
    [][(Iterating /\ Popped.terminated) =>
          (hist'.nstep = hist.nstep /\ worklist' = Rest)]_vars

\* a terminated state was popped while other states were waiting
C3_Witness ==
    /\ hist.branch = "finding"
    /\ hist.state.terminated
    /\ worklist # << >>

\* C4: the error of every symbolic state is absent or an outcome-catalog
\* string, and the kind of every finding is an outcome-catalog string.
C4_ErrorsInCatalog ==
    /\ \A i \in 1..Len(worklist) :
          worklist[i].error \in OutcomeCatalog \cup {"None"}
    /\ \A i \in 1..Len(findings) : findings[i].kind \in OutcomeCatalog

\* a state terminated without an error was recorded, as an ok finding
C4_Witness ==
    /\ hist.branch = "finding"
    /\ hist.state.error = "None"
    /\ findings # << >>
    /\ findings[Len(findings)].kind = "ok"

\* C5: run never returns an empty list; when no finding was recorded the
\* result is exactly one * finding with the pc and the path constraint of the
\* initial state, and when a finding was recorded no synthetic one is added.
C5_SyntheticOnlyWhenEmpty ==
    LET Recorded(fs) == {i \in 1..Len(fs) : fs[i].src # "synthetic"}
    IN  Returned =>
            /\ findings # << >>
            /\ IF Recorded(findings) = {}
               THEN /\ Len(findings) = 1
                    /\ findings[1].kind = "*"
                    /\ findings[1].pc = initial_state(method).pc
                    /\ findings[1].pcInt = FALSE
                    /\ findings[1].path_constraint =
                          initial_state(method).path_constraint
               ELSE \A i \in 1..Len(findings) : findings[i].src # "synthetic"

\* run returned the synthetic finding of a method with an array parameter
C5_Witness ==
    /\ ctl = "returned"
    /\ Len(findings) = 1
    /\ findings[1].src = "synthetic"
    /\ findings[1].path_constraint # << >>

\* C6: an iteration that stops at an engine limit (per-state bound, global
\* bound, depth bound) records no finding, and the only finding added after
\* the loop is the single synthetic * of an exploration that recorded none.
C6_LimitsRecordNothing ==
    /\ [][(Iterating /\ ~Popped.terminated
             /\ (Popped.steps >= MAX_STEPS_PER_STATE \/ GlobalBoundHit
                   \/ (config.max_depth # << >> /\ Len(Popped.path_constraint) > config.max_depth[1])))
            => findings' = findings]_vars
    /\ [][(ctl = "loop" /\ worklist = << >> /\ findings' # findings)
            => (findings = << >> /\ Len(findings') = 1
                  /\ findings'[1].kind = "*")]_vars

\* a path was dropped at the per-state bound after a finding was recorded
C6_Witness ==
    /\ hist.branch = "drop_per_state"
    /\ findings # << >>

StepsWithinGlobalBound ==
    config.max_steps # << >> => hist.nstep <= config.max_steps[1]

C8_RunTerminates == <>(ctl # "loop")

\* run returned for the endless loop with no global bound set
C8_Witness ==
    /\ ctl = "returned"
    /\ method = "loopForever"
    /\ config.max_steps = << >>
    /\ hist.branch = "drop_per_state"

\* C9: for loopForever under the default configuration the exploration ends
\* at the global bound max_steps and the result is the single finding *, so
\* the scorer shows 100 for * and 0 for every other label.
C9_LoopForeverStar ==
    (method = "loopForever" /\ config = DefaultConfig /\ ctl # "loop") =>
        /\ Returned
        /\ hist.branch = "global_stop"
        /\ Len(findings) = 1
        /\ findings[1].kind = "*"
        /\ ctl = "summarized" =>
              \A i \in 1..Len(output) :
                  output[i][2] = (IF output[i][1] = "*" THEN 100 ELSE 0)

\* some assignment of the path's variables agrees with the concrete input
\* (arg_i is the value of parameter i, len_i the length of the array passed
\* as parameter i, the elements read are left free) and satisfies the path
SatisfiedBy(path, inp) ==
    \E env \in [PathVars(path) -> SolverDom] :
        /\ \A v \in PathVars(path) :
              /\ v[1] = "arg" => env[v] = inp[v[2] + 1].value
              /\ v[1] = "len" => env[v] = Len(inp[v[2] + 1].content)
        /\ Satisfies(env, path)

\* C10: when the concrete interpreter ends on an outcome label for an input
\* and the symbolic run (no depth bound) has returned, some finding whose
\* path constraint the input satisfies has that label as its kind, and
\* every finding whose path constraint the input satisfies has that kind.
C10_ConcreteAgreesWithSymbolic ==
    (conc.status = "label" /\ conc.label \in NamedLabels /\ Returned) =>
        /\ \E i \in 1..Len(findings) :
              /\ findings[i].kind = conc.label
              /\ SatisfiedBy(findings[i].path_constraint, conc.input)
        /\ \A i \in 1..Len(findings) :
              SatisfiedBy(findings[i].path_constraint, conc.input)
                  => findings[i].kind = conc.label

\* C11: for alwaysAsserts (assert false) the concrete interpreter ends on
\* assertion error, the abstract interpreter records and prints assertion
\* error only, and the symbolic engine returns findings that are all of kind
\* assertion error.
C11_AlwaysAssertsAllEngines ==
    LET \* the three analyses of the method have all ended
        AllEnded ==
            /\ ctl # "loop"
            /\ conc.status \in {"label", "raised"}
            /\ absint.status \in {"printed", "raised"}
    IN  (method = "alwaysAsserts" /\ AllEnded) =>
            /\ conc.status = "label" /\ conc.label = "assertion error"
            /\ absint.status = "printed"
            /\ absint.printed = "assertion error"
            /\ \A i \in 1..Len(absint.final) : absint.final[i] = "assertion error"
            /\ Returned
            /\ \A i \in 1..Len(findings) : findings[i].kind = "assertion error"

\* C12: with BFSStrategy the k-th state popped is the k-th state added
\* (FIFO); with DFSStrategy, the default, the state popped is the one added
\* last among the states in the worklist (LIFO).
C12_StrategyOrder ==
    /\ DefaultConfig.strategy = "dfs"
    /\ [](Len(hist.stamps) = Len(worklist))
    /\ []((config.strategy = "bfs" /\ hist.npopped > 0)
            => hist.popstamp = hist.npopped)
    /\ [][(config.strategy = "dfs" /\ hist'.npopped = hist.npopped + 1)
            => LET waiting == {hist.stamps[i] : i \in 1..Len(hist.stamps)}
               IN  hist'.popstamp =
                       CHOOSE x \in waiting : \A y \in waiting : y <= x]_vars

\* a depth-first run popped a state added after one that still waits
C12_Witness ==
    /\ config.strategy = "dfs"
    /\ hist.npopped >= 3
    /\ Len(hist.stamps) >= 2
    /\ hist.popstamp > hist.stamps[1]

\* the JVM's integer division: the quotient is truncated towards zero
TruncDiv(x, y) ==
    LET ax == IF x < 0 THEN -x ELSE x
        ay == IF y < 0 THEN -y ELSE y
        q == ax \div ay
    IN  IF (x < 0) = (y < 0) THEN q ELSE -q

\* C13: for all finite sets X, Y and op among add, sub, mul, div, the sign of
\* x op y is contained in binary_op(abstract(X), abstract(Y), table of op)
\* for all x in X and y in Y (for div, for all y other than 0, where the
\* outcome is the divide-by-zero label).
C13_BinaryOpSound ==
    LET \* the concrete operation the table op abstracts
        ConcreteOp(op, x, y) ==
            CASE op = "add" -> x + y
              [] op = "sub" -> x - y
              [] op = "mul" -> x * y
              [] op = "div" -> TruncDiv(x, y)
    IN  (calc.fn = "binary_op" /\ calc.done) =>
            \A x \in calc.X, y \in calc.Y :
                (calc.op = "div" => y # 0)
                    => SignOf(ConcreteOp(calc.op, x, y)) \in calc.res.values

\* C14: on all Sign elements (every set of signs, bottom, and the top that
\* Sign.top() returns) join and meet are defined, commutative, associative
\* and idempotent, bottom is below and top is above every element.
C14_SignLattice ==
    (calc.fn = "lattice" /\ calc.done) =>
        /\ \A f \in {"join_ab", "join_ba", "join_ab_c", "join_a_bc", "join_aa",
                     "meet_ab", "meet_ba", "meet_ab_c", "meet_a_bc", "meet_aa",
                     "bot_le_a", "a_le_top"} : ~calc[f].raised
        /\ calc.join_ab.v = calc.join_ba.v
        /\ calc.join_ab_c.v = calc.join_a_bc.v
        /\ calc.join_aa.v = calc.a
        /\ calc.meet_ab.v = calc.meet_ba.v
        /\ calc.meet_ab_c.v = calc.meet_a_bc.v
        /\ calc.meet_aa.v = calc.a
        /\ calc.bot_le_a.v
        /\ calc.a_le_top.v

\* the priority order of the outcome labels, highest first
OutcomePriority ==
    <<"divide by zero", "assertion error", "out of bounds", "null pointer",
      "ok">>

InFinal(l) == \E i \in 1..Len(absint.final) : absint.final[i] = l

\* C15: after the abstract worklist loop the label printed is the one of
\* highest priority (divide by zero > assertion error > out of bounds > null
\* pointer > ok) present in final, and * is printed exactly when final holds
\* none of the five.
C15_OutcomeByPriority ==
    absint.status = "printed" =>
        /\ \A k \in 1..Len(OutcomePriority) :
              (InFinal(OutcomePriority[k])
                 /\ \A j \in 1..(k - 1) : ~InFinal(OutcomePriority[j]))
                  => absint.printed = OutcomePriority[k]
        /\ absint.printed = "*"
              <=> \A k \in 1..Len(OutcomePriority) : ~InFinal(OutcomePriority[k])

\* the loop recorded both assertion error and divide by zero, and divide by
\* zero was printed
C15_Witness ==
    /\ absint.status = "printed"
    /\ InFinal("assertion error")
    /\ InFinal("divide by zero")
    /\ absint.printed = "divide by zero"

\* the order the join is the least upper bound of: inclusion of the sign
\* sets, key by key and position by position, a missing slot being bottom
DictLeq(d1, d2) ==
    /\ DOMAIN d1 \subseteq DOMAIN d2
    /\ \A k \in DOMAIN d1 : d1[k].values \subseteq d2[k].values

ALeq(a, b) ==
    LET FrameLeq(f1, f2) ==
            /\ DictLeq(f1.locals, f2.locals)
            /\ Len(f1.stack) <= Len(f2.stack)
            /\ \A i \in 1..Len(f1.stack) : f1.stack[i].values \subseteq f2.stack[i].values
    IN  /\ DictLeq(a.heap, b.heap)
        /\ Len(a.frames) <= Len(b.frames)
        /\ \A i \in 1..Len(a.frames) : FrameLeq(a.frames[i], b.frames[i])

\* the state analysis_map holds at offset p
Stored(ai, p) == ai.objs[ai.amap[p]]

\* C16: in an iteration of the abstract worklist loop, for every state
\* successor at offset p the state stored for p afterwards is the join of
\* the state stored before and the successor (the successor itself when p
\* had none), p is enqueued exactly when p had no state or the join is not
\* below the state stored before, and no stored state ever shrinks.
C16_JoinedAndGrowing ==
    [][(/\ absint.status = "running"
        /\ absint.wl # << >>
        /\ absint.count < MAX_ITERATIONS
        /\ absint' # absint
        /\ ~astep(method, Stored(absint, Head(absint.wl))).raised) =>
        LET r == astep(method, Stored(absint, Head(absint.wl)))
            succOf(it) == IF it.kind = "same" THEN r.self ELSE it.st
            pcOf(it) == succOf(it).frames[Len(succOf(it).frames)].offset
            enq(p) == \E i \in 1..Len(absint'.wl) :
                          i > Len(absint.wl) - 1 /\ absint'.wl[i] = p
        IN  /\ absint'.status = "running"
            /\ \A p \in DOMAIN absint.amap :
                  /\ p \in DOMAIN absint'.amap
                  /\ ALeq(Stored(absint, p), Stored(absint', p))
            /\ \A i \in 1..Len(r.succs) :
                  r.succs[i].kind # "label" =>
                      LET p == pcOf(r.succs[i])
                          succ == succOf(r.succs[i])
                      IN  IF p \notin DOMAIN absint.amap
                          THEN Stored(absint', p) = succ /\ enq(p)
                          ELSE LET old == Stored(absint, p)
                                   j == AStateJoin(old, succ)
                               IN  /\ ~j.raised
                                   /\ Stored(absint', p) = j.v
                                   /\ enq(p) <=> ~ALeq(j.v, old)]_vars

\* C17: the abstract worklist loop is left with the worklist empty or at the
\* bound of MAX_ITERATIONS steps, never by an exception, and never runs more
\* than MAX_ITERATIONS steps.
C17_AbstractLoopEnds ==
    /\ absint.count <= MAX_ITERATIONS
    /\ ~(absint.status = "raised" /\ absint.objs # << >>)

\* the integers of the bounded domain a Sign admits
Gamma(s) == {v \in IntDom : SignOf(v) \in s.values}

\* C18: a step of the abstract interpreter on Ifz or If returns the jump
\* successor exactly when some combination of concrete values admitted by
\* the operands satisfies the condition, and the fall-through successor
\* exactly when some admitted combination falsifies it (so none for a
\* bottom operand).
C18_TwoSidedBranches ==
    [][(/\ absint.status = "running"
        /\ absint.wl # << >>
        /\ absint.count < MAX_ITERATIONS
        /\ absint' # absint
        /\ LET state == Stored(absint, Head(absint.wl)) IN
           /\ state.frames # << >>
           /\ LET frame == state.frames[Len(state.frames)] IN
              /\ OffsetInRange(method, frame.offset)
              /\ LET opr == Opcode(method, frame.offset) IN
                 \/ opr.op = "Ifz" /\ Len(frame.stack) >= 1
                 \/ opr.op = "If" /\ Len(frame.stack) >= 2) =>
        LET state == Stored(absint, Head(absint.wl))
            frame == state.frames[Len(state.frames)]
            st == frame.stack
            n == Len(st)
            opr == Opcode(method, frame.offset)
            r == astep(method, state)
            combos == IF opr.op = "Ifz"
                      THEN {<<v, 0>> : v \in Gamma(st[n])}
                      ELSE Gamma(st[n - 1]) \X Gamma(st[n])
            at(o) == \E i \in 1..Len(r.succs) :
                         /\ r.succs[i].kind = "new"
                         /\ LET fs == r.succs[i].st.frames
                            IN  fs[Len(fs)].offset = o
        IN  /\ ~r.raised
            /\ at(opr.target) <=>
                   \E c \in combos : CCompare(opr.condition, c[1], c[2])
            /\ at(frame.offset + 1) <=>
                   \E c \in combos : ~CCompare(opr.condition, c[1], c[2])]_vars

\* C19: a step of the abstract interpreter on a Div whose divisor admits
\* zero and a non-zero sign returns both the label divide by zero and a
\* continuing state at the next offset whose top of stack admits the sign
\* of every quotient by an admitted non-zero divisor.
C19_DivBothOutcomes ==
    [][(/\ absint.status = "running"
        /\ absint.wl # << >>
        /\ absint.count < MAX_ITERATIONS
        /\ absint' # absint
        /\ LET state == Stored(absint, Head(absint.wl)) IN
           /\ state.frames # << >>
           /\ LET frame == state.frames[Len(state.frames)]
                  n == Len(frame.stack)
              IN  /\ OffsetInRange(method, frame.offset)
                  /\ Opcode(method, frame.offset).op = "Binary"
                  /\ Opcode(method, frame.offset).operant = "Div"
                  /\ n >= 2
                  /\ "0" \in frame.stack[n].values
                  /\ frame.stack[n].values # {"0"}) =>
        LET state == Stored(absint, Head(absint.wl))
            frame == state.frames[Len(state.frames)]
            st == frame.stack
            n == Len(st)
            r == astep(method, state)
            quotients == {SignOf(TruncDiv(x, y)) :
                            x \in Gamma(st[n - 1]), y \in Gamma(st[n]) \ {0}}
        IN  /\ ~r.raised
            /\ \E i \in 1..Len(r.succs) :
                  r.succs[i] = ALabelItem("divide by zero")
            /\ \E i \in 1..Len(r.succs) :
                  /\ r.succs[i].kind = "new"
                  /\ LET fs == r.succs[i].st.frames
                         top == fs[Len(fs)]
                     IN  /\ top.offset = frame.offset + 1
                         /\ Len(top.stack) = n - 1
                         /\ quotients \subseteq top.stack[n - 1].values]_vars

\* C20: AState.join returns a result for every pair of abstract states,
\* whatever their numbers of frames, operand stack heights and key sets, and
\* the result is above both arguments in the pointwise order in which a
\* missing slot is bottom.
C20_AStateJoinTotal ==
    (calc.fn = "astate_join" /\ calc.done) =>
        /\ ~calc.res.raised
        /\ ALeq(calc.a, calc.res.v)
        /\ ALeq(calc.b, calc.res.v)

\* C21: over any sequence of lookups on one Bytecode object the provider is
\* called at most once per method, namely on the first lookup of that
\* method, and a lookup of a method looked up before leaves the stored list
\* as it is and returns the opcode at the offset of the stored list.
C21_BytecodeMemoised ==
    /\ [](calc.fn = "bytecode" =>
             \A m \in DOMAIN Methods :
                 /\ calc.calls[m] <= 1
                 /\ calc.calls[m] = 1 <=> m \in DOMAIN calc.methods)
    /\ [][(calc.fn = "bytecode" /\ calc'.n = calc.n + 1
             /\ calc'.m \in DOMAIN calc.methods) =>
            /\ calc'.calls = calc.calls
            /\ calc'.methods = calc.methods
            /\ calc'.offset < Len(calc.methods[calc'.m]) =>
                  calc'.res = Val(calc.methods[calc'.m][calc'.offset + 1])]_vars

\* a method was looked up, another one after it, and then the first again
C21_Witness ==
    /\ calc.fn = "bytecode"
    /\ calc.n = 3
    /\ Cardinality(DOMAIN calc.methods) = 2
    /\ ~calc.res.raised

\* C22: after a step of the concrete interpreter on Add, Sub or Mul the
\* value pushed on the operand stack is the mathematical result wrapped
\* into INT_MIN..INT_MAX (two's complement), hence within that range.
C22_WrappedArithmetic ==
    [][(/\ conc.status = "running"
        /\ conc'.status = "running"
        /\ conc'.iter = conc.iter + 1
        /\ LET f == conc.frames[Len(conc.frames)]
           IN  /\ OffsetInRange(f.method, f.offset)
               /\ Opcode(f.method, f.offset).op = "Binary"
               /\ Opcode(f.method, f.offset).operant \in {"Add", "Sub", "Mul"}) =>
        LET f == conc.frames[Len(conc.frames)]
            n == Len(f.stack)
            v1 == f.stack[n - 1].value
            v2 == f.stack[n].value
            operant == Opcode(f.method, f.offset).operant
            res == CASE operant = "Add" -> v1 + v2
                     [] operant = "Sub" -> v1 - v2
                     [] operant = "Mul" -> v1 * v2
            wrapped == ((res - INT_MIN) % (2 ^ IntBits)) + INT_MIN
            pushed == conc'.frames[Len(conc'.frames)].stack[n - 1].value
        IN  /\ pushed = wrapped
            /\ INT_MIN <= pushed /\ pushed <= INT_MAX]_vars

\* C23: every reference a NewArray step of the concrete interpreter pushes
\* is a positive integer that was not a key of the heap before the step, and
\* it differs from every heap reference the frames already hold.
C23_FreshPositiveReference ==
    [][(/\ conc.status = "running"
        /\ conc'.status = "running"
        /\ conc'.iter = conc.iter + 1
        /\ LET f == conc.frames[Len(conc.frames)]
           IN  /\ OffsetInRange(f.method, f.offset)
               /\ Opcode(f.method, f.offset).op = "NewArray") =>
        LET f == conc.frames[Len(conc.frames)]
            ref == conc'.frames[Len(conc'.frames)].stack[Len(f.stack)]
            held(fr) == {fr.stack[i] : i \in 1..Len(fr.stack)}
                            \cup {fr.locals[k] : k \in DOMAIN fr.locals}
            live == UNION {held(conc.frames[i]) : i \in 1..Len(conc.frames)}
        IN  /\ ref.kind = "heap"
            /\ ref.value \notin DOMAIN conc.heap
            /\ ref.value \in DOMAIN conc'.heap
            /\ ref.value > 0
            /\ \A v \in live :
                  (v.type = "ref" /\ v.kind = "heap") => v.value # ref.value]_vars

\* C24: a step of the concrete interpreter on ArrayLoad or ArrayStore with
\* an int index and a reference returns null pointer when the reference is
\* null, out of bounds when the reference is not null and the index is
\* outside [0, length), and otherwise (index in range) a continuing state
\* with the operands popped, ArrayLoad having pushed one value.
C24_ArrayAccessOutcomes ==
    [][(/\ conc.status = "running"
        /\ conc'.iter = conc.iter + 1
        /\ LET f == conc.frames[Len(conc.frames)]
               n == Len(f.stack)
           IN  /\ OffsetInRange(f.method, f.offset)
               /\ \/ /\ Opcode(f.method, f.offset).op = "ArrayLoad"
                     /\ n >= 2
                     /\ f.stack[n].type = "int" /\ f.stack[n - 1].type = "ref"
                  \/ /\ Opcode(f.method, f.offset).op = "ArrayStore"
                     /\ n >= 3
                     /\ f.stack[n - 1].type = "int"
                     /\ f.stack[n - 2].type = "ref") =>
        LET f == conc.frames[Len(conc.frames)]
            n == Len(f.stack)
            load == Opcode(f.method, f.offset).op = "ArrayLoad"
            index == IF load THEN f.stack[n].value ELSE f.stack[n - 1].value
            ref == IF load THEN f.stack[n - 1] ELSE f.stack[n - 2]
            \* the length of the array behind a reference that is not null
            length == IF ref.kind = "tuple" THEN Len(ref.content)
                      ELSE Len(conc.heap[ref.value].items)
            known == \/ ref.kind = "tuple"
                     \/ /\ ref.kind = "heap"
                        /\ ref.value \in DOMAIN conc.heap
                        /\ conc.heap[ref.value].islist
        IN  /\ ref.kind = "none" =>
                  conc'.status = "label" /\ conc'.label = "null pointer"
            /\ (known /\ (index < 0 \/ index >= length)) =>
                  conc'.status = "label" /\ conc'.label = "out of bounds"
            /\ (known /\ index >= 0 /\ index < length) =>
                  /\ conc'.status = "running"
                  /\ LET g == conc'.frames[Len(conc'.frames)]
                     IN  /\ g.offset = f.offset + 1
                         /\ Len(g.stack) = IF load THEN n - 1 ELSE n - 3]_vars

\* C25: a step of the concrete interpreter on InvokeStatic of a method with
\* n parameters pops n values from the caller and pushes a frame at offset 0
\* of the callee, with an empty stack and the arguments in locals 0..n-1 in
\* the order they were pushed; a step on Return with a caller frame below
\* leaves the caller on top, its pc advanced by one and its stack extended
\* by the returned value when the Return is typed; a Return with no caller
\* frame ends the run with ok.
C25_CallProtocol ==
    [][(/\ conc.status = "running"
        /\ conc'.iter = conc.iter + 1
        /\ LET f == conc.frames[Len(conc.frames)]
           IN  /\ OffsetInRange(f.method, f.offset)
               /\ \/ /\ Opcode(f.method, f.offset).op = "InvokeStatic"
                     /\ Len(f.stack) >= Opcode(f.method, f.offset).nparams
                  \/ /\ Opcode(f.method, f.offset).op = "Return"
                     /\ \/ Opcode(f.method, f.offset).type = "void"
                        \/ Len(f.stack) >= 1) =>
        LET depth == Len(conc.frames)
            f == conc.frames[depth]
            st == f.stack
            opr == Opcode(f.method, f.offset)
        IN  IF opr.op = "InvokeStatic"
            THEN /\ conc'.status = "running"
                 /\ Len(conc'.frames) = depth + 1
                 /\ SubSeq(conc'.frames, 1, depth - 1)
                        = SubSeq(conc.frames, 1, depth - 1)
                 /\ conc'.frames[depth] =
                        [f EXCEPT !.stack = SubSeq(st, 1, Len(st) - opr.nparams)]
                 /\ LET callee == conc'.frames[depth + 1]
                    IN  /\ callee.offset = 0
                        /\ Len(Methods[callee.method].args) = opr.nparams
                        /\ callee.stack = << >>
                        /\ DOMAIN callee.locals = 0..(opr.nparams - 1)
                        /\ \A i \in 0..(opr.nparams - 1) :
                              callee.locals[i] = st[Len(st) - opr.nparams + 1 + i]
            ELSE IF depth = 1
            THEN conc'.status = "label" /\ conc'.label = "ok"
            ELSE /\ conc'.status = "running"
                 /\ Len(conc'.frames) = depth - 1
                 /\ SubSeq(conc'.frames, 1, depth - 2)
                        = SubSeq(conc.frames, 1, depth - 2)
                 /\ LET caller == conc.frames[depth - 1]
                    IN  conc'.frames[depth - 1] =
                            [caller EXCEPT
                               !.offset = @ + 1,
                               !.stack = IF opr.type = "void" THEN @
                                         ELSE Append(@, st[Len(st)])]]_vars

\* callSub is back from sub2(a, b) with a # b: one past the invoke, the
\* pre-call stack without the two arguments and with a - b on top
C25_Witness ==
    /\ method = "callSub"
    /\ conc.status = "running"
    /\ conc.input[1] # conc.input[2]
    /\ Len(conc.frames) = 1
    /\ conc.frames[1].offset = 4
    /\ conc.frames[1].stack =
           <<IntV(1), IntV(conc.input[1].value - conc.input[2].value)>>

\* C26: a step of the symbolic frontend on Div or Rem, taken on a state
\* whose stack has the divisor rhs on top and the dividend lhs below, puts
\* exactly two successors on the worklist: one terminated with divide by
\* zero whose path is the parent's path plus rhs == 0, and one not
\* terminated at offset + 1 whose path is the parent's path plus the
\* negation of rhs == 0 and whose stack has lhs and rhs replaced by
\* lhs // rhs (Div) or lhs % rhs (Rem).
C26_DivRemFork ==
    [][(/\ Iterating
        /\ hist'.nstep = hist.nstep + 1
        /\ OffsetInRange(method, Popped.pc)
        /\ Opcode(method, Popped.pc).op = "Binary"
        /\ Opcode(method, Popped.pc).operant \in {"Div", "Rem"}
        /\ Len(Popped.stack) >= 2) =>
        LET s == Popped
            n == Len(s.stack)
            rhs == s.stack[n]
            lhs == s.stack[n - 1]
            sym == IF Opcode(method, s.pc).operant = "Div" THEN "//" ELSE "%"
            is_zero == BinaryOp("==", rhs, Conc(0))
            succs == hist'.added
            err(t) == /\ t.terminated
                      /\ t.error = "divide by zero"
                      /\ t.path_constraint = Append(s.path_constraint, is_zero)
            ok(t) == /\ ~t.terminated
                     /\ t.pc = s.pc + 1
                     /\ t.path_constraint =
                            Append(s.path_constraint, negate(is_zero))
                     /\ t.stack = Append(SubSeq(s.stack, 1, n - 2),
                                         BinaryOp(sym, lhs, rhs))
        IN  /\ hist'.branch = "expand"
            /\ Len(succs) = 2
            /\ \E i, j \in 1..2 : i # j /\ err(succs[i]) /\ ok(succs[j])]_vars

\* remOf has just been stepped on its Rem: the two successors are recorded
C26_Witness ==
    /\ method = "remOf"
    /\ hist.branch = "expand"
    /\ hist.state.pc = 2
    /\ Len(hist.added) = 2
    /\ \E i \in 1..2 : hist.added[i].error = "divide by zero"
    /\ \E i \in 1..2 :
          /\ ~hist.added[i].terminated
          /\ hist.added[i].stack
                = <<BinaryOp("%", hist.state.stack[1], hist.state.stack[2])>>

\* C27: a step of the symbolic frontend on If (two operands on the stack) or
\* on Ifz (one operand) puts exactly two successors on the worklist, neither
\* terminated and both with the operands popped: the first has the
\* comparison appended to the parent's path (lhs op rhs with the top of the
\* stack as rhs; value op 0 for Ifz) and its pc at the branch target, the
\* second has the negation of that comparison appended and its pc at
\* offset + 1.
C27_BranchFork ==
    [][(/\ Iterating
        /\ hist'.nstep = hist.nstep + 1
        /\ OffsetInRange(method, Popped.pc)
        /\ \/ /\ Opcode(method, Popped.pc).op = "If"
              /\ Len(Popped.stack) >= 2
           \/ /\ Opcode(method, Popped.pc).op = "Ifz"
              /\ Len(Popped.stack) >= 1) =>
        LET s == Popped
            n == Len(s.stack)
            opr == Opcode(method, s.pc)
            sym == CASE opr.condition \in {"eq", "is"} -> "=="
                     [] opr.condition \in {"ne", "isnot"} -> "!="
                     [] opr.condition = "lt" -> "<"
                     [] opr.condition = "le" -> "<="
                     [] opr.condition = "gt" -> ">"
                     [] opr.condition = "ge" -> ">="
            cmp == IF opr.op = "If"
                   THEN BinaryOp(sym, s.stack[n - 1], s.stack[n])
                   ELSE BinaryOp(sym, s.stack[n], Conc(0))
            rest == SubSeq(s.stack, 1, n - (IF opr.op = "If" THEN 2 ELSE 1))
            succs == hist'.added
        IN  /\ hist'.branch = "expand"
            /\ Len(succs) = 2
            /\ \A i \in 1..2 : ~succs[i].terminated /\ succs[i].stack = rest
            /\ succs[1].path_constraint = Append(s.path_constraint, cmp)
            /\ succs[1].pc = opr.target
            /\ succs[2].path_constraint =
                   Append(s.path_constraint, negate(cmp))
            /\ succs[2].pc = s.pc + 1]_vars

\* C28: a step of the symbolic frontend on ArrayLoad or ArrayStore whose
\* array operand is a reference to an array with a summary puts exactly
\* three successors on the worklist: one terminated with out of bounds whose
\* path is the parent's plus idx < 0, one terminated with out of bounds
\* whose path is the parent's plus idx >= length, and one continuing at
\* offset + 1 with the operands popped (ArrayLoad pushing the symbolic
\* element) whose path is the parent's plus 0 <= idx and idx < length; every
\* valuation that satisfies the parent's path satisfies exactly one of the
\* three.
C28_BoundsFork ==
    [][(/\ Iterating
        /\ hist'.nstep = hist.nstep + 1
        /\ OffsetInRange(method, Popped.pc)
        /\ LET s == Popped
               n == Len(s.stack)
               opr == Opcode(method, s.pc)
           IN  /\ \/ opr.op = "ArrayLoad" /\ n >= 2
                  \/ opr.op = "ArrayStore" /\ n >= 3
               /\ LET arr_ref == IF opr.op = "ArrayLoad" THEN s.stack[n - 1]
                                 ELSE s.stack[n - 2]
                  IN  /\ arr_ref.k = "aref"
                      /\ arr_ref.name \in DOMAIN s.arrays) =>
        LET s == Popped
            n == Len(s.stack)
            load == Opcode(method, s.pc).op = "ArrayLoad"
            idx == IF load THEN s.stack[n] ELSE s.stack[n - 1]
            arr_ref == IF load THEN s.stack[n - 1] ELSE s.stack[n - 2]
            length == s.arrays[arr_ref.name].length
            ge_0 == BinaryOp(">=", idx, Conc(0))
            lt_len == BinaryOp("<", idx, length)
            path == s.path_constraint
            succs == hist'.added
            lo(t) == /\ t.terminated /\ t.error = "out of bounds"
                     /\ t.path_constraint = Append(path, negate(ge_0))
            hi(t) == /\ t.terminated /\ t.error = "out of bounds"
                     /\ t.path_constraint = Append(path, negate(lt_len))
            ok(t) == /\ ~t.terminated
                     /\ t.pc = s.pc + 1
                     /\ t.path_constraint = path \o <<ge_0, lt_len>>
                     /\ IF load
                        THEN /\ Len(t.stack) = n - 1
                             /\ SubSeq(t.stack, 1, n - 2) = SubSeq(s.stack, 1, n - 2)
                             /\ t.stack[n - 1].k = "elem"
                             /\ t.stack[n - 1].array = arr_ref.name
                             /\ t.stack[n - 1].index = idx
                        ELSE t.stack = SubSeq(s.stack, 1, n - 3)
            holds(e, env) == z3_eval(e, env) = 1
        IN  /\ hist'.branch = "expand"
            /\ Len(succs) = 3
            /\ \E i, j, k \in 1..3 :
                  /\ i # j /\ i # k /\ j # k
                  /\ lo(succs[i]) /\ hi(succs[j]) /\ ok(succs[k])
            /\ \A env \in [PathVars(path \o <<ge_0, lt_len>>) -> SolverDom] :
                  Satisfies(env, path) =>
                     /\ holds(negate(ge_0), env) <=> z3_eval(idx, env) < 0
                     /\ holds(negate(lt_len), env)
                           <=> z3_eval(idx, env) >= z3_eval(length, env)
                     /\ Cardinality(
                           {c \in {"lo", "hi", "ok"} :
                              CASE c = "lo" -> holds(negate(ge_0), env)
                                [] c = "hi" -> holds(negate(lt_len), env)
                                [] c = "ok" -> holds(ge_0, env) /\ holds(lt_len, env)})
                        = 1]_vars

\* newArrays has just been stepped on its ArrayStore and arrayAt on its
\* ArrayLoad: three successors each, the continuing one with the operands
\* popped
C28_Witness ==
    /\ hist.branch = "expand"
    /\ Len(hist.added) = 3
    /\ \/ method = "newArrays" /\ hist.state.pc = 9
       \/ method = "newArrays" /\ hist.state.pc = 12
       \/ method = "arrayAt" /\ hist.state.pc = 2
    /\ \E i \in 1..3 : ~hist.added[i].terminated
    /\ Cardinality({i \in 1..3 : hist.added[i].error = "out of bounds"}) = 2

C30_AssertionCollapse ==
    \A w \in 1..Len(worklist) :
       LET s == worklist[w]
           at(o, name) == /\ OffsetInRange(method, o)
                          /\ Opcode(method, o).op = name
       IN  (/\ ctl = "loop"
            /\ ~s.terminated
            /\ at(s.pc, "New")
            /\ Opcode(method, s.pc).classname = "java/lang/AssertionError"
            /\ at(s.pc + 1, "Dup")
            /\ at(s.pc + 2, "InvokeSpecial")
            /\ Opcode(method, s.pc + 2).method
                   = "java/lang/AssertionError.<init>:()V"
            /\ at(s.pc + 3, "Throw")) =>
           LET r1 == step(method, s)
               single(r) == ~r.raised /\ Len(r.succ) = 1
               moved(r, o) == /\ single(r)
                              /\ ~r.succ[1].terminated
                              /\ r.succ[1].pc = o
                              /\ r.succ[1].path_constraint = s.path_constraint
           IN  /\ moved(r1, s.pc + 1)
               /\ LET r2 == step(method, r1.succ[1])
                  IN  /\ moved(r2, s.pc + 2)
                      /\ LET r3 == step(method, r2.succ[1])
                         IN  /\ moved(r3, s.pc + 3)
                             /\ LET r4 == step(method, r3.succ[1])
                                IN  /\ single(r4)
                                    /\ r4.succ[1].terminated
                                    /\ r4.succ[1].error = "assertion error"
                                    /\ r4.succ[1].path_constraint
                                          = s.path_constraint

\* the executor has stepped the Throw of subThenBranch after the New at
\* offset 4: the single successor is the assertion error, on the path the
\* branch at offset 3 had left
C30_Witness ==
    /\ method = "subThenBranch"
    /\ hist.branch = "expand"
    /\ hist.state.pc = 7
    /\ Len(hist.added) = 1
    /\ hist.added[1].terminated
    /\ hist.added[1].error = "assertion error"
    /\ Len(hist.added[1].path_constraint) = 1
    /\ hist.added[1].path_constraint = hist.state.path_constraint

\* C31: a step of the symbolic frontend on InvokeStatic of
\* assertBoolean(Z)V with the argument on the stack puts exactly two
\* successors on the worklist, both with the argument popped: one
\* terminated with assertion error whose path is the parent's plus
\* arg == 0, and one not terminated at offset + 1 whose path is the
\* parent's plus the negation of arg == 0; and the run of the default
\* configuration on tricky (load the argument, call assertBoolean, return)
\* returns findings of both kinds assertion error and ok.
C31_AssertBooleanFork ==
    /\ [][(/\ Iterating
           /\ hist'.nstep = hist.nstep + 1
           /\ OffsetInRange(method, Popped.pc)
           /\ Opcode(method, Popped.pc).op = "InvokeStatic"
           /\ Opcode(method, Popped.pc).method
                  = "jpamb.cases.Simple.assertBoolean:(Z)V"
           /\ Len(Popped.stack) >= 1) =>
           LET s == Popped
               n == Len(s.stack)
               is_zero == BinaryOp("==", s.stack[n], Conc(0))
               rest == SubSeq(s.stack, 1, n - 1)
               succs == hist'.added
               err(t) == /\ t.terminated
                         /\ t.error = "assertion error"
                         /\ t.stack = rest
                         /\ t.path_constraint =
                                Append(s.path_constraint, is_zero)
               ok(t) == /\ ~t.terminated
                        /\ t.pc = s.pc + 1
                        /\ t.stack = rest
                        /\ t.path_constraint =
                               Append(s.path_constraint, negate(is_zero))
           IN  /\ hist'.branch = "expand"
               /\ Len(succs) = 2
               /\ \E i, j \in 1..2 : i # j /\ err(succs[i]) /\ ok(succs[j])]_vars
    /\ []((/\ method = "tricky"
           /\ config = DefaultConfig
           /\ ctl # "loop") =>
          /\ ctl # "raised"
          /\ \E i \in 1..Len(findings) : findings[i].kind = "assertion error"
          /\ \E i \in 1..Len(findings) : findings[i].kind = "ok")

\* C32: every successor the executor pushes onto the worklist has a per-path
\* step counter exactly one greater than the counter its parent had when
\* the parent was popped.
C32_StepCounterByOne ==
    [][(/\ Iterating
        /\ hist'.branch = "expand") =>
        \A i \in 1..Len(hist'.added) :
            hist'.added[i].steps = Popped.steps + 1]_vars

\* C33: when the executor reaches the depth check with max_depth set, a
\* popped state whose path holds more than max_depth constraints is
\* dropped with no finding and no error, and a state within the bound goes
\* on to the solver check and the step: the depth check itself ends no run.
C33_DepthBoundDrops ==
    [][(/\ PastGlobal
        /\ config.max_depth # << >>
        /\ hist' # hist) =>
        IF Len(Popped.path_constraint) > config.max_depth[1]
        THEN /\ worklist' = Rest
             /\ findings' = findings
             /\ ctl' = "loop"
        ELSE \/ ctl' = "loop"
             \/ hist'.nstep = hist.nstep + 1
             \/ config.use_solver /\ solver_raises(Popped.path_constraint)]_vars

\* C34: the depth of a state is the one the executor holds against
\* max_depth, and it grows at control-flow branches only: every successor
\* pushed by a step on If or Ifz has the parent's depth plus one, every
\* successor of another opcode has the parent's depth, and at the depth
\* check a popped state is dropped exactly when its depth exceeds max_depth.
C34_DepthAtBranchesOnly ==
    /\ [][(/\ Iterating
           /\ hist'.branch = "expand") =>
           LET branch == Opcode(method, Popped.pc).op \in {"If", "Ifz"}
           IN  \A i \in 1..Len(hist'.added) :
                  hist'.added[i].depth =
                      Popped.depth + (IF branch THEN 1 ELSE 0)]_vars
    /\ [][(/\ PastGlobal
           /\ config.max_depth # << >>
           /\ hist' # hist) =>
           IF Popped.depth > config.max_depth[1]
           THEN worklist' = Rest /\ findings' = findings /\ ctl' = "loop"
           ELSE \/ ctl' = "loop"
                \/ hist'.nstep = hist.nstep + 1
                \/ config.use_solver
                      /\ solver_raises(Popped.path_constraint)]_vars

\* C35: every step the executor asks of the frontend on a popped state
\* returns a non-empty list of successors (the step does not raise and the
\* branch for an empty list is not taken); on a Return the list is one
\* successor terminated with ok, on an opcode the frontend has no case for
\* it is one successor terminated with *.
C35_StepTotal ==
    [][(/\ Iterating
        /\ hist'.nstep = hist.nstep + 1) =>
        LET modelled == {"Binary", "Push", "Return", "Get", "Ifz", "If", "New",
                         "Dup", "InvokeStatic", "InvokeSpecial", "NewArray",
                         "ArrayLength", "ArrayStore", "ArrayLoad", "Cast",
                         "Goto", "Store", "Load", "Throw", "Incr"}
            succs == hist'.added
            one(err) == /\ Len(succs) = 1
                        /\ succs[1].terminated
                        /\ succs[1].error = err
        IN  /\ hist'.branch = "expand"
            /\ succs # << >>
            /\ OffsetInRange(method, Popped.pc)
            /\ Opcode(method, Popped.pc).op = "Return" => one("ok")
            /\ Opcode(method, Popped.pc).op \notin modelled => one("*")]_vars

C37_PathsOnlyGrow ==
    /\ [][(/\ Iterating
           /\ hist'.branch = "expand") =>
           \A i \in 1..Len(hist'.added) :
              LET parent == Popped.path_constraint
                  child == hist'.added[i].path_constraint
              IN  /\ Len(child) >= Len(parent)
                  /\ SubSeq(child, 1, Len(parent)) = parent]_vars
    /\ [](LET first == initial_state(method).path_constraint
              arrays == {i \in 1..Len(Methods[method].args) :
                            Methods[method].args[i] = "[I"}
          IN  /\ Len(first) = Cardinality(arrays)
              /\ \A k \in 1..Len(first) : first[k].op = ">="
              /\ \A i \in 1..Len(findings) :
                    /\ Len(findings[i].path_constraint) >= Len(first)
                    /\ SubSeq(findings[i].path_constraint, 1, Len(first))
                          = first)

\* arrayAt has returned: its out of bounds finding carries the length >= 0
\* constraint of the array argument followed by the constraint of the
\* branch
C37_Witness ==
    /\ method = "arrayAt"
    /\ ctl = "returned"
    /\ \E i \in 1..Len(findings) :
          /\ findings[i].kind = "out of bounds"
          /\ Len(findings[i].path_constraint) = 2
          /\ findings[i].path_constraint[1]
                = BinaryOp(">=", SymInt(<<"len", 0>>, << >>), Conc(0))

C39_StoreChangesOneElement ==
    [][(/\ conc.status = "running"
        /\ conc'.iter = conc.iter + 1
        /\ LET f == conc.frames[Len(conc.frames)]
               n == Len(f.stack)
           IN  /\ OffsetInRange(f.method, f.offset)
               /\ Opcode(f.method, f.offset).op = "ArrayStore"
               /\ n >= 3
               /\ f.stack[n - 1].type = "int"
               /\ f.stack[n - 2].type = "ref"
               /\ f.stack[n - 2].kind = "heap"
               /\ f.stack[n - 2].value \in DOMAIN conc.heap
               /\ conc.heap[f.stack[n - 2].value].islist
               /\ f.stack[n - 1].value >= 0
               /\ f.stack[n - 1].value
                     < Len(conc.heap[f.stack[n - 2].value].items)) =>
        LET f == conc.frames[Len(conc.frames)]
            n == Len(f.stack)
            r == f.stack[n - 2].value
            i == f.stack[n - 1].value
            old == conc.heap
            new == conc'.heap
        IN  /\ conc'.status = "running"
            /\ DOMAIN new = DOMAIN old
            /\ \A k \in DOMAIN old :
                  /\ new[k].islist = old[k].islist
                  /\ Len(new[k].items) = Len(old[k].items)
                  /\ k # r => new[k] = old[k]
            /\ \A j \in 1..Len(old[r].items) :
                  j # i + 1 => new[r].items[j] = old[r].items[j]]_vars


\* C40: the abstract step does not modify the state it is applied to: over
\* one iteration of the worklist loop the object stored in analysis_map at the
\* popped offset is the same value after step as before, and no offset the
\* iteration adds to analysis_map holds that very object
C40_AbstractStepLeavesState ==
    [][(/\ absint.status = "running"
        /\ absint.wl # << >>
        /\ absint.count < MAX_ITERATIONS
        /\ absint' # absint)
       => LET p == Head(absint.wl)
              id == absint.amap[p]
          IN  /\ absint'.objs[id] = absint.objs[id]
              /\ \A q \in DOMAIN absint'.amap :
                     (q # p /\ q \notin DOMAIN absint.amap)
                         => absint'.amap[q] # id]_vars

====
